---- MODULE Spec2Model ----
(***************************************************************************)
(* Model of the media-streaming-server aggregation layer (MovieAPI):       *)
(* the fallback streaming resolver, the cross-source deduplicator, the     *)
(* response cache with the page adapters, and the batched bulkLoad.        *)
(***************************************************************************)
EXTENDS Integers, Sequences, FiniteSets, TLC

VARIABLES
    useCinetaro,      \* MovieAPI.useCinetaro: the master streaming switch
    fallbackSources,  \* MovieAPI.fallbackSources: the listed embed providers
    pc,               \* position of the resolver call: "idle", "probing", "done"
    op,               \* the operation in progress or last completed
    req,              \* its arguments: [id, type, options]
    idx,              \* index of the for-loop of getStreamingUrl into sortedSources
    probed,           \* the probes issued, in order: [source, verdict], the verdict
                      \* "pending" while in flight, then "live" or "dead"
    lastProbe,        \* the last probe: [source, outcome, live], or NoProbe
    result,           \* the URL returned (Null for null)
    available,        \* the boolean returned by checkCinetaroAvailability
    mediaArray,       \* the argument of deduplicateMedia
    dpc,              \* position of the deduplication run: "input", "once", "twice"
    deduped,          \* deduplicateMedia(mediaArray)
    dedupedAgain,     \* deduplicateMedia(deduplicateMedia(mediaArray))
    tmdbApiKey,       \* whether MovieAPI.tmdbApiKey is set
    now,              \* Date.now(), in milliseconds
    advances,         \* how often the clock has advanced
    started,          \* how many adapter calls have started
    cacheFiles,       \* the files of cacheDir, by path
    calls,            \* the adapter calls in progress, by slot
    endpoints,        \* bulkLoad argument: the mode of each endpoint, in list order
    startPage,        \* bulkLoad argument
    pageCount,        \* bulkLoad argument
    batchSize,        \* bulkLoad argument
    bpc,              \* position of bulkLoad: "idle", "batch", "delay", "done"
    endpointIdx,      \* index of the for-of loop into endpoints
    batchStart,       \* batchStart of the batch loop
    fetching,         \* the page fetches in flight: [endpoint, page]
    arrived,          \* the fulfilled promises of the batch, in order of arrival
    endpointItems,    \* endpointItems of the current endpoint
    allItems,         \* allItems, the value bulkLoad returns
    batches,          \* the batches issued so far: [endpoint, pages]
    waits,            \* the delays started so far: [endpoint, afterPage]
    pageItems,        \* what each settled page delivered: [endpoint, page, items]
    outOfOrder,       \* a page was fulfilled while a lower page of its endpoint
                      \* was still in flight
    aborted,          \* the endpoints abandoned by the catch around the endpoint
    omdbApiKey,       \* whether MovieAPI.omdbApiKey is set
    omdbStarted,      \* how many OMDb operations have started
    omdb,             \* the OMDb operation in progress
    omdbSucceeded,    \* the lookups that returned a record: [key, at]
    genreMap,         \* MovieAPI.genreMap: the [id, name] pairs of movie and of tv
    inits,            \* the invocations of initGenres, by slot
    route,            \* the request GET /api/streaming/:mediaId in progress
    cartoons,         \* the getCartoons call in progress
    usearch           \* the universalSearch call

streamVars == <<useCinetaro, fallbackSources, pc, op, req, idx, probed, lastProbe,
                result, available>>
dedupVars == <<mediaArray, dpc, deduped, dedupedAgain>>
cacheVars == <<tmdbApiKey, now, advances, started, cacheFiles, calls>>
bulkVars == <<endpoints, startPage, pageCount, batchSize, bpc, endpointIdx, batchStart,
              fetching, arrived, endpointItems, allItems, batches, waits, pageItems,
              outOfOrder, aborted>>
omdbVars == <<omdbApiKey, omdbStarted, omdb, omdbSucceeded>>
genreVars == <<genreMap, inits>>
lateVars == <<omdbVars, genreVars, route, cartoons, usearch>>
vars == <<streamVars, dedupVars, cacheVars, bulkVars, lateVars>>

(***************************************************************************)
(* Fallback streaming resolver                                             *)
(***************************************************************************)

\* JavaScript null / undefined of a URL: no string at all.
Null == <<>>

SourceNames == <<"cinetaro", "cinetaro-alt", "vidsrc", "embed">>

BaseUrlOf(name) ==
    CASE name = "cinetaro" -> "https://apicinetaro.falex43350.workers.dev"
      [] name = "cinetaro-alt" -> "https://cinetaro-api.vercel.app"
      [] name = "vidsrc" -> "https://vidsrc.me"
      [] name = "embed" -> "https://embed.su"

\* The priorities the constructor hands out, one per listed source.
Priorities == 1..Len(SourceNames)

\* Every assignment of the constructor's priorities to the listed sources.
PriorityAssignments ==
    {p \in [1..Len(SourceNames) -> Priorities] :
        \A i, j \in DOMAIN p : p[i] = p[j] => i = j}

\* The list of the constructor, with any enabled toggles and any assignment
\* of the priorities to the listed sources.
FallbackSourceLists ==
    {[i \in 1..Len(SourceNames) |->
        [name |-> SourceNames[i], baseUrl |-> BaseUrlOf(SourceNames[i]),
         priority |-> p[i], enabled |-> e[i]]] :
        p \in PriorityAssignments, e \in [1..Len(SourceNames) -> BOOLEAN]}

MediaTypes == {"movie", "tv", "anime"}
Ids == {"550", "1399"}
DefaultOptions ==
    [season |-> "1", episode |-> "1", language |-> "english", animeType |-> "sub"]
OptionSets ==
    {DefaultOptions,
     [season |-> "2", episode |-> "3", language |-> "spanish", animeType |-> "dub"]}
Requests == [id : Ids, type : MediaTypes, options : OptionSets]
NoRequest == [id |-> "", type |-> "", options |-> DefaultOptions]

\* Array.prototype.filter(s => s.enabled)
RECURSIVE FilterEnabled(_)
FilterEnabled(s) ==
    IF s = <<>> THEN <<>>
    ELSE IF Head(s).enabled THEN <<Head(s)>> \o FilterEnabled(Tail(s))
         ELSE FilterEnabled(Tail(s))

\* Insertion of x into a list sorted by priority, after its equals (stable).
RECURSIVE InsertByPriority(_, _)
InsertByPriority(x, s) ==
    IF s = <<>> THEN <<x>>
    ELSE IF x.priority - Head(s).priority < 0 THEN <<x>> \o s
         ELSE <<Head(s)>> \o InsertByPriority(x, Tail(s))

\* Mutation of the sort: the sources stay in the order they are listed in.
SortByPriorityAsListed(s) == s

\* Array.prototype.sort((a, b) => a.priority - b.priority)
RECURSIVE SortByPriority(_)
SortByPriority(s) ==
    IF s = <<>> THEN <<>>
    ELSE InsertByPriority(s[Len(s)], SortByPriority(SubSeq(s, 1, Len(s) - 1)))

\* [...this.fallbackSources].filter(s => s.enabled).sort(...)
SortedSources(sources) == SortByPriority(FilterEnabled(sources))

\* The URL one source builds: the segments of its template, in order.
GetStreamingUrlFromSource(id, type, options, source) ==
    IF ~source.enabled THEN Null
    ELSE IF source.name \in {"cinetaro", "cinetaro-alt"} THEN
        CASE type = "movie" -> <<source.baseUrl, "movie", id, options.language>>
          [] type = "tv" ->
                <<source.baseUrl, "tv", id, options.season, options.episode,
                  options.language>>
          [] type = "anime" ->
                <<source.baseUrl, "anime", "anilist", options.animeType, id,
                  options.season, options.episode>>
          [] OTHER -> Null
    ELSE IF source.name = "vidsrc" THEN
        CASE type = "movie" -> <<source.baseUrl, "embed", "movie", id>>
          [] type = "tv" ->
                <<source.baseUrl, "embed", "tv", id, options.season, "-",
                  options.episode>>
          [] OTHER -> Null
    ELSE IF source.name = "embed" THEN
        CASE type = "movie" -> <<source.baseUrl, "embed", "movie", id>>
          [] type = "tv" ->
                <<source.baseUrl, "embed", "tv", id, options.season, "/",
                  options.episode>>
          [] OTHER -> Null
    ELSE Null

\* Mutation of the primary source: the last of the sorted sources.
PrimaryUrlOfLast(r, sorted) ==
    IF sorted = <<>> THEN Null
    ELSE GetStreamingUrlFromSource(r.id, r.type, r.options, sorted[Len(sorted)])

\* const primarySource = sortedSources[0]; the URL it builds, or null.
PrimaryUrl(r, sorted) ==
    IF sorted = <<>> THEN Null
    ELSE GetStreamingUrlFromSource(r.id, r.type, r.options, sorted[1])

\* What the HEAD request of a probe can end in.
Statuses == {200, 299, 300, 404, 499, 500}
Outcomes ==
    [kind : {"status"}, status : Statuses]
        \cup [kind : {"timeout", "network"}, status : {0}]

\* validateStatus: (status) => status < 500
ValidateStatus(status) == status < 500

\* axios.head resolves with the response, or rejects
AxiosHeadResolves(outcome) ==
    outcome.kind = "status" /\ ValidateStatus(outcome.status)

\* Mutation of checkStreamingUrlAvailability: every resolved response is live.
CheckStreamingUrlAvailabilityAnyResolved(url, outcome) ==
    url # Null /\ AxiosHeadResolves(outcome)

CheckStreamingUrlAvailability(url, outcome) ==
    IF url = Null THEN FALSE
    ELSE IF AxiosHeadResolves(outcome)
         THEN outcome.status >= 200 /\ outcome.status < 300
         ELSE FALSE

NoProbe == [source |-> "", outcome |-> [kind |-> "none", status |-> 0], live |-> FALSE]

\* The first source at or after position from whose template builds a URL for
\* the request (the loop's "if (!url) continue"), or Len(sorted) + 1.
RECURSIVE NextProbeIdx(_, _, _)
NextProbeIdx(r, sorted, from) ==
    IF from > Len(sorted) THEN Len(sorted) + 1
    ELSE IF GetStreamingUrlFromSource(r.id, r.type, r.options, sorted[from]) # Null
         THEN from
         ELSE NextProbeIdx(r, sorted, from + 1)

\* getStreamingUrlSync(id, type, options)
GetStreamingUrlSync(r) ==
    /\ pc = "idle"
    /\ op' = "sync"
    /\ req' = r
    /\ result' = IF ~useCinetaro THEN Null
                 ELSE PrimaryUrl(r, SortedSources(fallbackSources))
    /\ pc' = "done"
    /\ idx' = 0
    /\ probed' = <<>>
    /\ lastProbe' = NoProbe
    /\ available' = FALSE
    /\ UNCHANGED <<useCinetaro, fallbackSources, dedupVars, cacheVars, bulkVars, lateVars>>

\* getStreamingUrl(id, type, options, false)
GetStreamingUrlFast(r) ==
    /\ pc = "idle"
    /\ op' = "fast"
    /\ req' = r
    /\ result' = IF ~useCinetaro THEN Null
                 ELSE PrimaryUrl(r, SortedSources(fallbackSources))
    /\ pc' = "done"
    /\ idx' = 0
    /\ probed' = <<>>
    /\ lastProbe' = NoProbe
    /\ available' = FALSE
    /\ UNCHANGED <<useCinetaro, fallbackSources, dedupVars, cacheVars, bulkVars, lateVars>>

\* Mutation of checkCinetaroAvailability: it answers true whatever the URL.
AvailabilityOfAnyUrl(caller, url) == caller = "check"

\* What checkCinetaroAvailability makes of the URL getStreamingUrl returned.
AvailabilityOf(caller, url) == caller = "check" /\ url # Null

\* getStreamingUrl(id, type, options, true), called directly ("verified") or by
\* checkCinetaroAvailability ("check"), up to its first probe.
GetStreamingUrlBegin(r, caller) ==
    /\ pc = "idle"
    /\ op' = caller
    /\ req' = r
    /\ lastProbe' = NoProbe
    /\ LET sorted == SortedSources(fallbackSources)
           first == NextProbeIdx(r, sorted, 1)
       IN IF ~useCinetaro
          THEN /\ pc' = "done"
               /\ result' = Null
               /\ available' = FALSE
               /\ idx' = 0
               /\ probed' = <<>>
          ELSE IF first <= Len(sorted)
          THEN /\ pc' = "probing"
               /\ idx' = first
               /\ probed' = <<[source |-> sorted[first].name, verdict |-> "pending"]>>
               /\ result' = Null
               /\ available' = FALSE
          ELSE /\ pc' = "done"
               /\ idx' = first
               /\ probed' = <<>>
               /\ result' = PrimaryUrl(r, sorted)
               /\ available' = AvailabilityOf(caller, PrimaryUrl(r, sorted))
    /\ UNCHANGED <<useCinetaro, fallbackSources, dedupVars, cacheVars, bulkVars, lateVars>>

\* The probe in flight ends in outcome o: the loop returns the URL, or goes on
\* to the next probe, or falls through to the primary source's URL.
ProbeReturns(o) ==
    /\ pc = "probing"
    /\ LET sorted == SortedSources(fallbackSources)
           source == sorted[idx]
           url == GetStreamingUrlFromSource(req.id, req.type, req.options, source)
           isAvailable == CheckStreamingUrlAvailability(url, o)
           next == NextProbeIdx(req, sorted, idx + 1)
       IN /\ lastProbe' = [source |-> source.name, outcome |-> o, live |-> isAvailable]
          /\ IF isAvailable
             THEN /\ pc' = "done"
                  /\ result' = url
                  /\ available' = AvailabilityOf(op, url)
                  /\ probed' = [probed EXCEPT ![Len(probed)].verdict = "live"]
                  /\ UNCHANGED idx
             ELSE IF next <= Len(sorted)
             THEN /\ idx' = next
                  /\ probed' = Append([probed EXCEPT ![Len(probed)].verdict = "dead"],
                                      [source |-> sorted[next].name, verdict |-> "pending"])
                  /\ UNCHANGED <<pc, result, available>>
             ELSE /\ pc' = "done"
                  /\ idx' = next
                  /\ result' = PrimaryUrl(req, sorted)
                  /\ available' = AvailabilityOf(op, PrimaryUrl(req, sorted))
                  /\ probed' = [probed EXCEPT ![Len(probed)].verdict = "dead"]
    /\ UNCHANGED <<useCinetaro, fallbackSources, op, req, dedupVars, cacheVars, bulkVars, lateVars>>

\* The caller takes the value returned; the resolver keeps nothing of the call.
ResolverReturn ==
    /\ pc = "done"
    /\ pc' = "idle"
    /\ op' = "none"
    /\ req' = NoRequest
    /\ idx' = 0
    /\ probed' = <<>>
    /\ lastProbe' = NoProbe
    /\ result' = Null
    /\ available' = FALSE
    /\ UNCHANGED <<useCinetaro, fallbackSources, dedupVars, cacheVars, bulkVars, lateVars>>

DedupIdle ==
    /\ mediaArray = <<>>
    /\ dpc = "input"
    /\ deduped = <<>>
    /\ dedupedAgain = <<>>

(***************************************************************************)
(* Deduplicator                                                            *)
(***************************************************************************)

\* A JavaScript value that is a string or not (undefined, null): a string is
\* the sequence of its characters.
Absent == [isString |-> FALSE, chars |-> <<>>]
Str(c) == [isString |-> TRUE, chars |-> c]

\* JavaScript truthiness of such a value: a non-empty string.
Truthy(v) == v.isString /\ v.chars # <<>>

\* a || b
OrElse(a, b) == IF Truthy(a) THEN a ELSE b

\* String.prototype.toLowerCase, on the characters used
LowerChar(c) ==
    CASE c = "D" -> "d"
      [] c = "U" -> "u"
      [] c = "N" -> "n"
      [] c = "E" -> "e"
      [] OTHER -> c

\* \w and \s of the regular expressions of normalizeTitle
WordChars == {"d", "u", "n", "e", "D", "U", "N", "E", "0", "1", "2", "_"}
SpaceChars == {" ", "\t"}

RECURSIVE ToLowerCase(_)
ToLowerCase(c) ==
    IF c = <<>> THEN <<>> ELSE <<LowerChar(Head(c))>> \o ToLowerCase(Tail(c))

\* .replace(/[^\w\s]/g, '')
RECURSIVE StripPunctuation(_)
StripPunctuation(c) ==
    IF c = <<>> THEN <<>>
    ELSE IF Head(c) \in WordChars \cup SpaceChars
         THEN <<Head(c)>> \o StripPunctuation(Tail(c))
         ELSE StripPunctuation(Tail(c))

\* .replace(/\s+/g, ' ')
RECURSIVE CollapseSpaces(_)
CollapseSpaces(c) ==
    IF c = <<>> THEN <<>>
    ELSE IF Head(c) \in SpaceChars
         THEN IF Len(c) > 1 /\ c[2] \in SpaceChars
              THEN CollapseSpaces(Tail(c))
              ELSE <<" ">> \o CollapseSpaces(Tail(c))
         ELSE <<Head(c)>> \o CollapseSpaces(Tail(c))

\* .trim()
RECURSIVE TrimStart(_)
TrimStart(c) ==
    IF c # <<>> /\ Head(c) \in SpaceChars THEN TrimStart(Tail(c)) ELSE c

RECURSIVE TrimEnd(_)
TrimEnd(c) ==
    IF c # <<>> /\ c[Len(c)] \in SpaceChars
    THEN TrimEnd(SubSeq(c, 1, Len(c) - 1))
    ELSE c

Trim(c) == TrimEnd(TrimStart(c))

\* normalizeTitle(title): the characters of the normalized title
NormalizeTitle(title) ==
    IF ~Truthy(title) THEN <<>>
    ELSE Trim(CollapseSpaces(StripPunctuation(ToLowerCase(title.chars))))

\* releaseDate.split('-')[0]
RECURSIVE SplitDashFirst(_)
SplitDashFirst(c) ==
    IF c = <<>> \/ Head(c) = "-" THEN <<>>
    ELSE <<Head(c)>> \o SplitDashFirst(Tail(c))

\* media.year || (media.releaseDate ? media.releaseDate.split('-')[0] : '')
YearOf(media) ==
    IF Truthy(media.year) THEN media.year.chars
    ELSE IF Truthy(media.releaseDate) THEN SplitDashFirst(media.releaseDate.chars)
         ELSE <<>>

\* normalizeTitle(media.title || media.originalTitle)
NormalizedTitleOf(media) == NormalizeTitle(OrElse(media.title, media.originalTitle))

\* Mutation of getDedupKey: the type is part of the key.
GetDedupKeyWithType(media) ==
    NormalizedTitleOf(media) \o <<"_">> \o YearOf(media) \o <<"_", media.type>>

\* getDedupKey(media): `${normalizedTitle}_${year}`
GetDedupKey(media) == NormalizedTitleOf(media) \o <<"_">> \o YearOf(media)

\* Mutation of preferNew: a poster is no reason to replace.
PreferNewWithoutPoster(item, existing) ==
    \/ Truthy(item.source) /\ ~Truthy(existing.source)
    \/ item.hasStreaming /\ ~existing.hasStreaming
    \/ /\ item.genres.isArray
       /\ Len(item.genres.items) > 0
       /\ (~existing.genres.isArray \/ Len(existing.genres.items) = 0)

\* Mutation of preferNew: the incoming record replaces the stored one only
\* when the stored one has nothing the incoming one lacks.
PreferNewUnlessWorse(item, existing) ==
    /\ \/ Truthy(item.source) /\ ~Truthy(existing.source)
       \/ item.hasStreaming /\ ~existing.hasStreaming
       \/ Truthy(item.posterUrl) /\ ~Truthy(existing.posterUrl)
       \/ /\ item.genres.isArray
          /\ Len(item.genres.items) > 0
          /\ (~existing.genres.isArray \/ Len(existing.genres.items) = 0)
    /\ ~(\/ Truthy(existing.source) /\ ~Truthy(item.source)
         \/ existing.hasStreaming /\ ~item.hasStreaming
         \/ Truthy(existing.posterUrl) /\ ~Truthy(item.posterUrl)
         \/ /\ existing.genres.isArray
            /\ Len(existing.genres.items) > 0
            /\ (~item.genres.isArray \/ Len(item.genres.items) = 0))

\* const preferNew = ...
PreferNew(item, existing) ==
    \/ Truthy(item.source) /\ ~Truthy(existing.source)
    \/ item.hasStreaming /\ ~existing.hasStreaming
    \/ Truthy(item.posterUrl) /\ ~Truthy(existing.posterUrl)
    \/ /\ item.genres.isArray
       /\ Len(item.genres.items) > 0
       /\ (~existing.genres.isArray \/ Len(existing.genres.items) = 0)

\* The position of key in the Map seen (a sequence of [key, item] in
\* insertion order), 0 when it has no entry for it: seen.get(key).
RECURSIVE SeenIndex(_, _, _)
SeenIndex(seen, key, i) ==
    IF i > Len(seen) THEN 0
    ELSE IF seen[i].key = key THEN i
         ELSE SeenIndex(seen, key, i + 1)

\* Mutation of the loop body: a replacement keeps the loser's source when the
\* winner has none.
DedupStepMerging(seen, item) ==
    IF ~Truthy(item.title) /\ ~Truthy(item.originalTitle) THEN seen
    ELSE LET key == GetDedupKey(item)
             at == SeenIndex(seen, key, 1)
         IN IF key = <<"_">> THEN seen
            ELSE IF at = 0 THEN Append(seen, [key |-> key, item |-> item])
            ELSE IF PreferNew(item, seen[at].item)
                 THEN [seen EXCEPT ![at].item =
                          [item EXCEPT !.source = OrElse(item.source, seen[at].item.source)]]
                 ELSE seen

\* The body of the loop "for (const item of mediaArray)"
DedupStep(seen, item) ==
    IF ~Truthy(item.title) /\ ~Truthy(item.originalTitle) THEN seen
    ELSE LET key == GetDedupKey(item)
             at == SeenIndex(seen, key, 1)
         IN IF key = <<"_">> THEN seen
            ELSE IF at = 0 THEN Append(seen, [key |-> key, item |-> item])
            ELSE IF PreferNew(item, seen[at].item)
                 THEN [seen EXCEPT ![at].item = item]
                 ELSE seen

RECURSIVE DedupLoop(_, _)
DedupLoop(seen, mediaArr) ==
    IF mediaArr = <<>> THEN seen
    ELSE DedupLoop(DedupStep(seen, Head(mediaArr)), Tail(mediaArr))

\* Mutation of the result: the values of the Map, last inserted first.
SeenValuesReversed(seen) == [i \in 1..Len(seen) |-> seen[Len(seen) + 1 - i].item]

\* Array.from(seen.values())
SeenValues(seen) == [i \in 1..Len(seen) |-> seen[i].item]

\* deduplicateMedia(mediaArray)
DeduplicateMedia(mediaArr) ==
    IF Len(mediaArr) = 0 THEN <<>>
    ELSE SeenValues(DedupLoop(<<>>, mediaArr))

\* Titles, years and metadata of the records given to deduplicateMedia.
Dune == <<"D", "u", "n", "e">>
DuneBangs == <<"d", "u", "n", "e", "!", "!">>
DuneSpaced == <<" ", "D", "U", "N", "E", "\t", " ">>
DuNe == <<"D", "u", " ", "\t", "n", "e">>
Bangs == <<"!", "!">>
Y2021 == <<"2", "0", "2", "1">>
Y2020 == <<"2", "0", "2", "0">>
Date2021 == <<"2", "0", "2", "1", "-", "1", "0", "-", "2", "2">>

\* title and originalTitle
TitleParts ==
    {<<Str(Dune), Absent>>, <<Str(DuneBangs), Absent>>, <<Str(DuneSpaced), Absent>>,
     <<Str(DuNe), Absent>>, <<Str(Bangs), Absent>>, <<Absent, Str(Dune)>>,
     <<Str(<<>>), Str(Bangs)>>, <<Absent, Absent>>, <<Str(<<>>), Absent>>}

\* year and releaseDate
YearParts ==
    {<<Str(Y2021), Absent>>, <<Absent, Str(Date2021)>>, <<Str(Y2020), Str(Date2021)>>,
     <<Absent, Absent>>}

GenreValues ==
    {[isArray |-> FALSE, items |-> <<>>], [isArray |-> TRUE, items |-> <<>>],
     [isArray |-> TRUE, items |-> <<"Action">>]}

Record(titles, years, type, source, hasStreaming, posterUrl, genres) ==
    [title |-> titles[1], originalTitle |-> titles[2], year |-> years[1],
     releaseDate |-> years[2], type |-> type, source |-> source,
     hasStreaming |-> hasStreaming, posterUrl |-> posterUrl, genres |-> genres]

Tmdb == Str(<<"tmdb">>)
Poster == Str(<<"http://x/p.jpg">>)

\* Records of every title and year, bare local ones and full provider ones.
KeyRecords ==
    {Record(t, y, ty, q[1], q[2], q[3], q[4]) :
        t \in TitleParts, y \in YearParts, ty \in {"movie", "tv"},
        q \in {<<Absent, FALSE, Absent, [isArray |-> FALSE, items |-> <<>>]>>,
               <<Tmdb, TRUE, Poster, [isArray |-> TRUE, items |-> <<"Action">>]>>}}

\* Records of two colliding titles with every combination of metadata.
MetadataRecords ==
    {Record(t, <<Str(Y2021), Absent>>, "movie", so, hs, po, ge) :
        t \in {<<Str(Dune), Absent>>, <<Str(DuneBangs), Absent>>},
        so \in {Absent, Tmdb}, hs \in BOOLEAN, po \in {Absent, Poster},
        ge \in GenreValues}

MediaRecords == KeyRecords \cup MetadataRecords

\* Records for the longer inputs: three keys, one title without key.
CoreRecords ==
    {Record(t, y, "movie", so, FALSE, po, [isArray |-> FALSE, items |-> <<>>]) :
        t \in {<<Str(Dune), Absent>>, <<Str(DuneBangs), Absent>>, <<Str(Bangs), Absent>>},
        y \in {<<Str(Y2021), Absent>>, <<Absent, Absent>>},
        so \in {Absent, Tmdb}, po \in {Absent, Poster}}

MaxLen == 3

SeqsUpTo(S, n) == UNION {[1..k -> S] : k \in 0..n}

\* The arrays deduplicateMedia is applied to: every pair of records, and the
\* longer arrays of the core records.
MediaArrays == SeqsUpTo(MediaRecords, 2) \cup SeqsUpTo(CoreRecords, MaxLen)

\* const deduplicated = movieAPI.deduplicateMedia(allMedia)
Deduplicate ==
    /\ dpc = "input"
    /\ deduped' = DeduplicateMedia(mediaArray)
    /\ dpc' = "once"
    /\ UNCHANGED <<mediaArray, dedupedAgain, streamVars, cacheVars, bulkVars, lateVars>>

\* deduplicateMedia applied to an array that was deduplicated before
DeduplicateAgain ==
    /\ dpc = "once"
    /\ dedupedAgain' = DeduplicateMedia(deduped)
    /\ dpc' = "twice"
    /\ UNCHANGED <<mediaArray, deduped, streamVars, cacheVars, bulkVars, lateVars>>

StreamIdle ==
    /\ useCinetaro = TRUE
    /\ fallbackSources = [i \in 1..Len(SourceNames) |->
            [name |-> SourceNames[i], baseUrl |-> BaseUrlOf(SourceNames[i]),
             priority |-> i, enabled |-> TRUE]]
    /\ pc = "idle"
    /\ op = "none"
    /\ req = NoRequest
    /\ idx = 0
    /\ probed = <<>>
    /\ lastProbe = NoProbe
    /\ result = Null
    /\ available = FALSE

(***************************************************************************)
(* Response cache and page adapters                                        *)
(***************************************************************************)

\* this.cacheExpiry: 24 hours in milliseconds.
cacheExpiry == 24 * 60 * 60 * 1000

Adapters == {"getTrendingMovies", "getPopularAnimeFromJikan", "getPopularTVShowsFromTVMaze"}

MaxPage == 1
Pages == 1..MaxPage

\* The template literal of each adapter's cacheKey.
CacheKey(adapter, page) ==
    CASE adapter = "getTrendingMovies" -> <<"trending_movies_", page>>
      [] adapter = "getPopularAnimeFromJikan" -> <<"jikan_popular_anime_", page>>
      [] adapter = "getPopularTVShowsFromTVMaze" -> <<"tvmaze_tv_shows_", page>>

\* The template literals of the cacheKey of getMovieFromOMDb and of
\* searchOMDbByTitle.
OmdbKey(imdbId) == <<"omdb_", imdbId>>
OmdbSearchKey(title, year) == <<"omdb_search_", title, "_", OrElse(year, Str(<<"a", "n", "y">>))>>

CacheKeys ==
    {CacheKey(a, p) : a \in Adapters, p \in Pages}
    \cup {<<"cartoons_all_", p>> : p \in Pages}
    \cup {OmdbKey(i) : i \in {"tt1160419"}}
    \cup {OmdbSearchKey(Str(Dune), y) : y \in {Str(Y2021), Absent}}

GetCachePath(key) == <<".cache/api", key, ".json">>

CachePaths == {GetCachePath(k) : k \in CacheKeys}

\* The content of a cache file: absent, opened for writing and not yet
\* completely written, the complete JSON text of {timestamp, data}, or such
\* a text followed by the rest of a longer one that was there before.
NoFile == [kind |-> "none", timestamp |-> 0, data |-> <<>>]
Partial == [kind |-> "partial", timestamp |-> 0, data |-> <<>>]
Entry(t, d) == [kind |-> "json", timestamp |-> t, data |-> d]
Garbled(d) == [kind |-> "garbled", timestamp |-> 0, data |-> d]

\* The length of the text in a file, counted in records: the timestamps
\* have the same number of digits.
TextLength(file) == Len(file.data)

\* A property whose value is undefined, and a property the object lacks.
Undefined == "undefined"
Missing == "missing"

\* JSON.stringify of an array of records followed by JSON.parse: a property
\* whose value is undefined is left out of the text.
JsonRoundTrip(records) ==
    [i \in DOMAIN records |->
        [records[i] EXCEPT !.anilistId = IF @ = Undefined THEN Missing ELSE @]]

\* What getCached returns: null, or the data of the entry.
CacheNull == [isNull |-> TRUE, value |-> <<>>]
CacheData(d) == [isNull |-> FALSE, value |-> d]

\* fs.readJson(cachePath): rejects on an I/O error and on text that is not
\* complete JSON.
ReadJson(file, io) ==
    IF io = "error" \/ file.kind # "json"
    THEN [threw |-> TRUE, file |-> NoFile]
    ELSE [threw |-> FALSE, file |-> file]

\* The freshness test of getCached.
IsFreshAtExpiry(timestamp, t) == timestamp # 0 /\ (t - timestamp) <= cacheExpiry
IsFresh(timestamp, t) == timestamp # 0 /\ (t - timestamp) < cacheExpiry

\* The body of getCached from readJson on, with its try/catch: the value
\* returned, and whether anything was thrown to the caller.
GetCachedUncaught(file, io, t) ==
    LET read == ReadJson(file, io) IN
    IF read.threw THEN [threw |-> TRUE, value |-> CacheNull]
    ELSE IF IsFresh(read.file.timestamp, t)
         THEN [threw |-> FALSE, value |-> CacheData(read.file.data)]
         ELSE [threw |-> FALSE, value |-> CacheNull]
GetCached(file, io, t) ==
    LET read == ReadJson(file, io) IN
    IF read.threw THEN [threw |-> FALSE, value |-> CacheNull]
    ELSE IF IsFresh(read.file.timestamp, t)
         THEN [threw |-> FALSE, value |-> CacheData(read.file.data)]
         ELSE [threw |-> FALSE, value |-> CacheNull]

\* fs.writeJson(cachePath, {timestamp, data}) opens the file, which empties
\* it, and then writes the text from the start of the file; either step may
\* fail.  Nothing orders two writes of the same file: a text written over a
\* longer one that another write has put there since the file was opened
\* leaves the rest of the longer one behind it.
WriteJsonOpen(file, io) ==
    IF io = "error" THEN [threw |-> TRUE, file |-> file]
    ELSE [threw |-> FALSE, file |-> Partial]

WriteJsonFinishNoTimestamp(file, io, timestamp, data) ==
    IF io = "error" THEN [threw |-> TRUE, file |-> file]
    ELSE [threw |-> FALSE, file |-> Entry(0, JsonRoundTrip(data))]
WriteJsonFinish(file, io, timestamp, data) ==
    IF io = "error" THEN [threw |-> TRUE, file |-> file]
    ELSE IF TextLength(file) > Len(data)
         THEN [threw |-> FALSE, file |-> Garbled(file.data)]
         ELSE [threw |-> FALSE, file |-> Entry(timestamp, JsonRoundTrip(data))]

\* The try/catch of setCache: a rejected write is logged, nothing is thrown.
SetCacheRethrows(written) == written
SetCacheCatch(written) == [written EXCEPT !.threw = FALSE]

\* An upstream item: the fields the adapters read.
ItemDune == [id |-> 1, title |-> "Dune", poster |-> TRUE, anilist |-> FALSE,
             genreIds |-> <<28>>]
ItemNoPoster == [id |-> 2, title |-> "Solaris", poster |-> FALSE, anilist |-> FALSE,
                 genreIds |-> <<>>]
ItemAkira == [id |-> 3, title |-> "Akira", poster |-> TRUE, anilist |-> TRUE,
              genreIds |-> <<16, 28>>]

\* A response body: the list of items the adapter expects ("list"), an
\* object without that list ("object"), or an empty body ("empty").
ListBody(items) == [shape |-> "list", items |-> items]
ObjectBody == [shape |-> "object", items |-> <<>>]
EmptyBody == [shape |-> "empty", items |-> <<>>]
FullBody == ListBody(<<ItemDune, ItemNoPoster, ItemAkira>>)
Bodies == {ListBody(<<>>), FullBody, ObjectBody, EmptyBody}

\* How an axios.get settles: a response with a status, or no response.
UpstreamOutcomes ==
    {[kind |-> "response", status |-> 200, body |-> b] : b \in Bodies}
    \cup {[kind |-> "response", status |-> s, body |-> EmptyBody] : s \in {404, 500}}
    \cup {[kind |-> k, status |-> 0, body |-> EmptyBody] : k \in {"network", "timeout"}}

NoOutcome == [kind |-> "none", status |-> 0, body |-> EmptyBody]

\* axios.get resolves on a 2xx response and rejects otherwise.
AxiosGetResolves(o) == o.kind = "response" /\ o.status >= 200 /\ o.status < 300

\* The genre taxonomy of TMDB: the [id, name] pairs of genre/movie/list and
\* of genre/tv/list.
MovieGenres == {<<16, <<"Animation">>>>, <<28, <<"Action">>>>}
TvGenres == {<<16, <<"Animation">>>>, <<18, <<"Drama">>>>}

\* this.genreMap as the constructor leaves it, and with both lists loaded.
EmptyGenreMap == [movie |-> {}, tv |-> {}]
FullGenreMap == [movie |-> MovieGenres, tv |-> TvGenres]

\* `Genre ${id}`
GenrePlaceholder(id) == <<"Genre ", id>>

\* mapGenres(genreIds, type), for an array of ids.
MapGenres(genreIds, type, map) ==
    [i \in DOMAIN genreIds |->
        IF \E e \in map[type] : e[1] = genreIds[i]
        THEN (CHOOSE e \in map[type] : e[1] = genreIds[i])[2]
        ELSE GenrePlaceholder(genreIds[i])]

\* The record each adapter builds from an item.
MapItem(adapter, item, cinetaro, map) ==
    CASE adapter = "getTrendingMovies" ->
            [id |-> <<"tmdb_movie_", item.id>>, title |-> item.title,
             posterUrl |-> IF item.poster THEN <<"https://image.tmdb.org/t/p/w500", item.id>>
                           ELSE Null,
             type |-> "movie", source |-> "tmdb", anilistId |-> Missing,
             genres |-> MapGenres(item.genreIds, "movie", map),
             genreIds |-> item.genreIds,
             hasStreaming |-> cinetaro]
      [] adapter = "getPopularAnimeFromJikan" ->
            [id |-> <<"jikan_anime_", item.id>>, title |-> item.title,
             posterUrl |-> IF item.poster THEN <<"large_image_url", item.id>> ELSE Null,
             type |-> "anime", source |-> "jikan",
             anilistId |-> IF item.anilist THEN "21" ELSE Undefined,
             hasStreaming |-> cinetaro /\ item.anilist]
      [] adapter = "getPopularTVShowsFromTVMaze" ->
            [id |-> <<"tvmaze_tv_", item.id>>, title |-> item.title,
             posterUrl |-> IF item.poster THEN <<"image.original", item.id>> ELSE Null,
             type |-> "tv", source |-> "tvmaze", anilistId |-> Missing,
             hasStreaming |-> FALSE]

\* The filter each adapter applies to its mapped records.
KeepsRecord(record) == record.title # "" /\ record.posterUrl # Null

\* The statements between axios.get and setCache: the mapped and filtered
\* records, or an exception when the body has no list to map.
MapResponse(adapter, body, cinetaro, map) ==
    LET mapped == [i \in DOMAIN body.items |-> MapItem(adapter, body.items[i], cinetaro, map)]
        results == SelectSeq(mapped, KeepsRecord)
    IN  CASE body.shape = "list" -> [threw |-> FALSE, results |-> results]
          [] body.shape = "object" -> [threw |-> TRUE, results |-> <<>>]
          [] body.shape = "empty" ->
                IF adapter = "getPopularTVShowsFromTVMaze"
                THEN [threw |-> FALSE, results |-> <<>>]
                ELSE [threw |-> TRUE, results |-> <<>>]

\* The adapters that return [] up front when tmdbApiKey is not set.
NeedsTmdbApiKey(adapter) == adapter = "getTrendingMovies"

MaxConcurrent == 1
Slots == 1..MaxConcurrent
MaxCalls == 2
MaxAdvances == 3

IdleCall ==
    [pc |-> "idle", adapter |-> "none", page |-> 0, lookedUp |-> FALSE,
     cached |-> CacheNull, seen |-> NoFile, readAt |-> 0, readFailed |-> FALSE, upstreamCalls |-> 0,
     outcome |-> NoOutcome, stamp |-> 0, results |-> <<>>, writeFailed |-> FALSE,
     writeSeq |-> 0, result |-> <<>>, raised |-> FALSE]

CachePathOf(call) == GetCachePath(CacheKey(call.adapter, call.page))

\* A call of adapter(page) up to its first await.  Slots are names of calls:
\* a call takes the lowest free one.
AdapterBegin(s, adapter, page) ==
    /\ calls[s].pc = "idle"
    /\ \A t \in 1..(s - 1) : calls[t].pc # "idle"
    /\ started < MaxCalls
    /\ started' = started + 1
    /\ LET call == [IdleCall EXCEPT !.adapter = adapter, !.page = page]
       IN  calls' = [calls EXCEPT ![s] =
                IF NeedsTmdbApiKey(adapter) /\ ~tmdbApiKey
                THEN [call EXCEPT !.pc = "done", !.result = <<>>]
                ELSE [call EXCEPT !.pc = "pathExists"]]
    /\ UNCHANGED <<tmdbApiKey, now, advances, cacheFiles, streamVars, dedupVars, bulkVars, lateVars>>

\* After a miss the adapter calls axios.get at once.
AfterGetCachedFetching(call, got) ==
    IF got.threw
    THEN [call EXCEPT !.pc = "done", !.raised = TRUE]
    ELSE [call EXCEPT !.pc = "upstream", !.cached = got.value, !.upstreamCalls = @ + 1]
AfterGetCached(call, got) ==
    IF got.threw
    THEN [call EXCEPT !.pc = "done", !.raised = TRUE]
    ELSE IF ~got.value.isNull
         THEN [call EXCEPT !.pc = "done", !.cached = got.value, !.result = got.value.value]
         ELSE [call EXCEPT !.pc = "upstream", !.cached = CacheNull,
                           !.upstreamCalls = @ + 1]

\* fs.pathExists settles: without a file getCached returns null.
PathExists(s) ==
    /\ calls[s].pc = "pathExists"
    /\ LET call == [calls[s] EXCEPT !.lookedUp = TRUE] IN
       calls' = [calls EXCEPT ![s] =
            IF cacheFiles[CachePathOf(call)].kind = "none"
            THEN AfterGetCached(call, [threw |-> FALSE, value |-> CacheNull])
            ELSE [call EXCEPT !.pc = "readJson"]]
    /\ UNCHANGED <<tmdbApiKey, now, advances, started, cacheFiles, streamVars, dedupVars, bulkVars, lateVars>>

\* fs.readJson settles and getCached returns.
ReadJsonReturns(s, io) ==
    /\ calls[s].pc = "readJson"
    /\ LET file == cacheFiles[CachePathOf(calls[s])]
           got == GetCached(file, io, now)
       IN  calls' = [calls EXCEPT ![s] =
                AfterGetCached([calls[s] EXCEPT !.seen = file, !.readAt = now,
                                                !.readFailed = (io = "error")], got)]
    /\ UNCHANGED <<tmdbApiKey, now, advances, started, cacheFiles, streamVars, dedupVars, bulkVars, lateVars>>

\* axios.get settles: the adapter maps the response and calls setCache, which
\* takes its timestamp and starts the write; or the catch block returns [].
UpstreamReturns(s, o) ==
    /\ calls[s].pc = "upstream"
    /\ LET mapped == MapResponse(calls[s].adapter, o.body, useCinetaro, genreMap) IN
       calls' = [calls EXCEPT ![s] =
            IF AxiosGetResolves(o) /\ ~mapped.threw
            THEN [calls[s] EXCEPT !.pc = "writeOpen", !.outcome = o,
                                  !.results = mapped.results, !.stamp = now]
            ELSE [calls[s] EXCEPT !.pc = "done", !.outcome = o, !.result = <<>>]]
    /\ UNCHANGED <<tmdbApiKey, now, advances, started, cacheFiles, streamVars, dedupVars, bulkVars, lateVars>>

\* What the adapter does when setCache has settled: return the results, or,
\* had setCache thrown, the [] of the adapter's own catch block.
AfterSetCache(call, written) ==
    IF written.threw
    THEN [call EXCEPT !.pc = "done", !.result = <<>>]
    ELSE [call EXCEPT !.pc = "done", !.result = call.results]

\* The write of setCache opens the file.
SetCacheOpens(s, io) ==
    /\ calls[s].pc = "writeOpen"
    /\ LET path == CachePathOf(calls[s])
           written == SetCacheCatch(WriteJsonOpen(cacheFiles[path], io))
       IN  /\ cacheFiles' = [cacheFiles EXCEPT ![path] = written.file]
           /\ calls' = [calls EXCEPT ![s] =
                    IF io = "error"
                    THEN AfterSetCache([calls[s] EXCEPT !.writeFailed = TRUE], written)
                    ELSE [calls[s] EXCEPT !.pc = "writeFinish"]]
    /\ UNCHANGED <<tmdbApiKey, now, advances, started, streamVars, dedupVars, bulkVars, lateVars>>

\* The write of setCache completes or fails, and the adapter returns.
SetCacheReturns(s, io) ==
    /\ calls[s].pc = "writeFinish"
    /\ LET path == CachePathOf(calls[s])
           written == SetCacheCatch(WriteJsonFinish(cacheFiles[path], io,
                                                    calls[s].stamp, calls[s].results))
       IN  /\ cacheFiles' = [cacheFiles EXCEPT ![path] = written.file]
           /\ calls' = [calls EXCEPT ![s] =
                    AfterSetCache([calls[s] EXCEPT
                        !.writeFailed = (io = "error"),
                        !.writeSeq = 1 + Cardinality({t \in DOMAIN calls :
                                                        calls[t].writeSeq > 0})],
                                  written)]
    /\ UNCHANGED <<tmdbApiKey, now, advances, started, streamVars, dedupVars, bulkVars, lateVars>>

\* The caller takes the result; the slot is free for the next call.
AdapterReturn(s) ==
    /\ calls[s].pc = "done"
    /\ calls' = [calls EXCEPT ![s] = IdleCall]
    /\ UNCHANGED <<tmdbApiKey, now, advances, started, cacheFiles, streamVars, dedupVars, bulkVars, lateVars>>

\* Time passes: Date.now() grows by a millisecond, or by a millisecond less
\* than the expiry.
Tick(d) ==
    /\ advances < MaxAdvances
    /\ advances' = advances + 1
    /\ now' = now + d
    /\ UNCHANGED <<tmdbApiKey, started, cacheFiles, calls, streamVars, dedupVars, bulkVars, lateVars>>

\* The cache directory outlives the process: it is empty, or holds an entry
\* an earlier run wrote at time 1.
EarlierEntry(adapter) ==
    Entry(1, JsonRoundTrip(MapResponse(adapter, FullBody, TRUE, FullGenreMap).results))

InitialCaches ==
    {[p \in CachePaths |-> NoFile]}
    \cup {[p \in CachePaths |->
              IF p = GetCachePath(CacheKey(a, 1)) THEN EarlierEntry(a) ELSE NoFile]
          : a \in Adapters}

CacheIdle ==
    /\ tmdbApiKey = FALSE
    /\ now = 2
    /\ advances = 0
    /\ started = 0
    /\ cacheFiles = [p \in CachePaths |-> NoFile]
    /\ calls = [s \in Slots |-> IdleCall]

(***************************************************************************)
(* bulkLoad: batched loading of pages from a list of endpoints             *)
(***************************************************************************)

EndpointNames == <<"jikan", "anilist">>

\* How the method of an endpoint settles: with the records of the page, with
\* [] (the adapter swallowed its own failure or timeout), or rejected.
\* A healthy endpoint always delivers, a failing one never, a flaky one
\* either.
SettlesOf(mode) ==
    CASE mode = "healthy" -> {"records"}
      [] mode = "failing" -> {"empty", "rejected"}
      [] mode = "flaky" -> {"records", "empty", "rejected"}

Modes == {"healthy", "failing", "flaky"}

MaxEndpoints == 2
MaxStartPage == 2
MaxPageCount == 5
MaxBatchSize == 3

\* The endpoints argument: the first n endpoint names, each with a mode.
EndpointLists ==
    UNION {[1..n -> Modes] : n \in 0..MaxEndpoints}

NameOf(eIdx) == EndpointNames[((eIdx - 1) % Len(EndpointNames)) + 1]

\* The records endpoint.method(i) resolves to: one record on an even page,
\* two on an odd one.
PageRecords(eIdx, i) == [k \in 1..(1 + (i % 2)) |-> <<NameOf(eIdx), i, k>>]

ItemsOfSettle(eIdx, i, kind) == IF kind = "records" THEN PageRecords(eIdx, i) ELSE <<>>

\* The .catch handler on each page promise: a rejection becomes [].
CatchPageErrorMissing(eIdx, i, kind) ==
    [rejected |-> kind = "rejected", items |-> ItemsOfSettle(eIdx, i, kind)]
CatchPageError(eIdx, i, kind) ==
    [rejected |-> FALSE, items |-> ItemsOfSettle(eIdx, i, kind)]

Min(a, b) == IF a < b THEN a ELSE b

EndPage == startPage + pageCount - 1

BatchEnd(bStart) == Min(bStart + batchSize - 1, EndPage)

\* The pages of the inner for loop, in the order of batchPromises.
BatchPages(bStart) == [k \in 1..(BatchEnd(bStart) - bStart + 1) |-> bStart + k - 1]

RECURSIVE Flatten(_)
Flatten(seqs) == IF seqs = <<>> THEN <<>> ELSE Head(seqs) \o Flatten(Tail(seqs))

\* What has arrived for a page of the batch ([] while nothing has).
ArrivedItems(arr, page) ==
    LET hits == SelectSeq(arr, LAMBDA a : a.page = page)
    IN  IF hits = <<>> THEN <<>> ELSE hits[1].items

\* Promise.all(batchPromises) resolves when every promise of the batch has
\* been fulfilled, to the values in the order of batchPromises.
PromiseAllResolvedOnFirst(arr, pages) == Len(arr) >= 1
PromiseAllResolvedOnFullBatch(arr, pages) == Len(arr) = batchSize
PromiseAllResolved(arr, pages) == Len(arr) = Len(pages)

PromiseAllInArrivalOrder(arr, pages) == [k \in 1..Len(arr) |-> arr[k].items]
PromiseAll(arr, pages) == [k \in 1..Len(pages) |-> ArrivedItems(arr, pages[k])]

\* The condition of the delay after a batch.
WaitsAfterEveryBatch(batchEnd, endPage) == batchEnd <= endPage
WaitsAfterBatch(batchEnd, endPage) == batchEnd < endPage

\* The inner for loop pushes the page promises of the batch from bStart.
StartBatch(eIdx, bStart, inFlight) ==
    /\ bpc' = "batch"
    /\ endpointIdx' = eIdx
    /\ batchStart' = bStart
    /\ fetching' = inFlight \cup {[endpoint |-> eIdx, page |-> i] : i \in bStart..BatchEnd(bStart)}
    /\ arrived' = <<>>
    /\ batches' = Append(batches, [endpoint |-> eIdx, pages |-> BatchPages(bStart)])

\* The for-of loop reaches endpoint eIdx, or its end.
NextEndpoint(eIdx, inFlight) ==
    IF eIdx > Len(endpoints) \/ startPage > EndPage
    THEN /\ bpc' = "done"
         /\ endpointIdx' = eIdx
         /\ fetching' = inFlight
         /\ UNCHANGED <<batchStart, arrived, batches>>
    ELSE StartBatch(eIdx, startPage, inFlight)

\* bulkLoad is called and runs up to its first await.
BulkLoadBegin ==
    /\ bpc = "idle"
    /\ allItems' = <<>>
    /\ endpointItems' = <<>>
    /\ NextEndpoint(1, fetching)
    /\ UNCHANGED <<endpoints, startPage, pageCount, batchSize, waits, pageItems,
                   outOfOrder, aborted, streamVars, dedupVars, cacheVars, lateVars>>

InCurrentBatch(f) ==
    /\ bpc = "batch"
    /\ f.endpoint = endpointIdx
    /\ f.page >= batchStart
    /\ f.page <= BatchEnd(batchStart)

\* A page fetch settles.  Fulfilled (by itself or by its .catch) it adds its
\* value to the batch; rejected it would reject Promise.all and the catch
\* around the endpoint would move on to the next endpoint.
FetchSettles(f, kind) ==
    /\ f \in fetching
    /\ kind \in SettlesOf(endpoints[f.endpoint])
    /\ LET got == CatchPageError(f.endpoint, f.page, kind) IN
       IF ~InCurrentBatch(f)
       THEN /\ fetching' = fetching \ {f}
            /\ UNCHANGED <<bpc, endpointIdx, batchStart, arrived, batches, endpointItems,
                           pageItems, outOfOrder, aborted>>
       ELSE IF got.rejected
       THEN /\ aborted' = aborted \cup {endpointIdx}
            /\ endpointItems' = <<>>
            /\ NextEndpoint(endpointIdx + 1, fetching \ {f})
            /\ UNCHANGED <<pageItems, outOfOrder>>
       ELSE /\ fetching' = fetching \ {f}
            /\ arrived' = Append(arrived, [page |-> f.page, items |-> got.items])
            /\ pageItems' = pageItems \cup
                    {[endpoint |-> f.endpoint, page |-> f.page, items |-> got.items]}
            /\ outOfOrder' = (outOfOrder \/ \E g \in fetching :
                                    g.endpoint = f.endpoint /\ g.page < f.page)
            /\ UNCHANGED <<bpc, endpointIdx, batchStart, batches, endpointItems, aborted>>
    /\ UNCHANGED <<endpoints, startPage, pageCount, batchSize, allItems, waits,
                   streamVars, dedupVars, cacheVars, lateVars>>

\* await Promise.all resumes: the values are spread onto endpointItems; then
\* the delay starts, or the endpoint is finished and the next one begins.
BatchCompletes ==
    /\ bpc = "batch"
    /\ PromiseAllResolved(arrived, BatchPages(batchStart))
    /\ LET batchResults == PromiseAll(arrived, BatchPages(batchStart))
           items == endpointItems \o Flatten(batchResults)
       IN  IF WaitsAfterBatch(BatchEnd(batchStart), EndPage)
           THEN /\ bpc' = "delay"
                /\ waits' = Append(waits, [endpoint |-> endpointIdx,
                                           afterPage |-> BatchEnd(batchStart)])
                /\ endpointItems' = items
                /\ UNCHANGED <<endpointIdx, batchStart, fetching, arrived, batches, allItems>>
           ELSE /\ allItems' = allItems \o items
                /\ endpointItems' = <<>>
                /\ NextEndpoint(endpointIdx + 1, fetching)
                /\ UNCHANGED waits
    /\ UNCHANGED <<endpoints, startPage, pageCount, batchSize, pageItems, outOfOrder,
                   aborted, streamVars, dedupVars, cacheVars, lateVars>>

\* The setTimeout of the delay fires and the next batch starts.
DelayElapses ==
    /\ bpc = "delay"
    /\ StartBatch(endpointIdx, batchStart + batchSize, fetching)
    /\ UNCHANGED <<endpoints, startPage, pageCount, batchSize, endpointItems, allItems,
                   waits, pageItems, outOfOrder, aborted, streamVars, dedupVars, cacheVars, lateVars>>

BulkIdle ==
    /\ endpoints = <<>>
    /\ startPage = 1
    /\ pageCount = 0
    /\ batchSize = 2
    /\ bpc = "idle"
    /\ endpointIdx = 0
    /\ batchStart = 0
    /\ fetching = {}
    /\ arrived = <<>>
    /\ endpointItems = <<>>
    /\ allItems = <<>>
    /\ batches = <<>>
    /\ waits = <<>>
    /\ pageItems = {}
    /\ outOfOrder = FALSE
    /\ aborted = {}

(***************************************************************************)
(* OMDb lookups and enrichment                                             *)
(***************************************************************************)

ImdbIds == {"tt1160419"}
OmdbTitles == {Str(Dune)}
OmdbYears == {Str(Y2021), Absent}

\* The text 'N/A' OMDb sends for a field it has no value for.
NA == Str(<<"N", "/", "A">>)

ShortText == Str(<<"a", "b">>)
LongText == Str(<<"a", "b", "c">>)

\* response.data of OMDb: Response 'False', or a title.  Genre is the list
\* of names with its ', ' separators; a body may lack it.
OmdbFalse ==
    [Response |-> "False", imdbID |-> Absent, Plot |-> NA, Genre |-> NA,
     Director |-> NA, Poster |-> NA]
OmdbTitle(imdbID, plot, genre, poster) ==
    [Response |-> "True", imdbID |-> imdbID, Plot |-> plot, Genre |-> genre,
     Director |-> Str(<<"Denis Villeneuve">>), Poster |-> poster]

OmdbPoster == Str(<<"https://m.media-amazon.com/dune.jpg">>)
GenreText == Str(<<"Adventure", ", ", "Sci-Fi">>)

\* How the axios.get of searchOMDbByTitle settles.
OmdbSearchOutcomes ==
    {[resolves |-> FALSE, data |-> OmdbFalse],
     [resolves |-> TRUE, data |-> OmdbFalse]}
    \cup {[resolves |-> TRUE, data |-> OmdbTitle(i, NA, NA, NA)]
            : i \in {Absent} \cup {Str(<<id>>) : id \in ImdbIds}}

\* How the axios.get of getMovieFromOMDb settles.
OmdbMovieOutcomes ==
    {[resolves |-> FALSE, data |-> OmdbFalse],
     [resolves |-> TRUE, data |-> OmdbFalse]}
    \cup {[resolves |-> TRUE, data |-> OmdbTitle(Str(<<id>>), p, g, po)]
            : id \in ImdbIds, p \in {NA, LongText}, g \in {NA, GenreText, Absent},
              po \in {NA, OmdbPoster}}

NoOmdbOutcome == [resolves |-> FALSE, data |-> [Response |-> "none"]]

\* field !== 'N/A' ? field : null
UnlessNA(field) == IF field # NA THEN field ELSE Absent

\* data.Genre.split(', ')
SplitGenre(genre) == SelectSeq(genre.chars, LAMBDA c : c # ", ")

\* The statements of getMovieFromOMDb after axios.get has resolved: null, the
\* record, or an exception when a field read as a string is undefined.
OmdbRecord(imdbId, data) ==
    IF data.Response = "False" THEN [threw |-> FALSE, value |-> CacheNull]
    ELSE IF data.Genre # NA /\ ~data.Genre.isString
         THEN [threw |-> TRUE, value |-> CacheNull]
         ELSE [threw |-> FALSE, value |-> CacheData(
                [id |-> OmdbKey(imdbId), overview |-> UnlessNA(data.Plot),
                 genres |-> IF data.Genre # NA THEN SplitGenre(data.Genre) ELSE <<>>,
                 director |-> UnlessNA(data.Director),
                 posterUrl |-> UnlessNA(data.Poster), imdbID |-> data.imdbID])]

\* The records handed to enrichWithOMDb: null, or a TMDB record.
TmdbItem(year, posterUrl, overview, genres) ==
    [title |-> Str(Dune), year |-> year, posterUrl |-> posterUrl,
     overview |-> overview, genres |-> genres]

TmdbItems ==
    {CacheNull}
    \cup {CacheData(TmdbItem(y, po, ov, ge)) :
            y \in OmdbYears, po \in {Absent, Poster}, ov \in {Absent, ShortText},
            ge \in {[isArray |-> FALSE, items |-> <<>>],
                    [isArray |-> TRUE, items |-> <<"Sci-Fi">>]}}

\* [...new Set(list)]: the first occurrence of each element, in order.
RECURSIVE Unique(_)
Unique(list) ==
    IF list = <<>> THEN <<>>
    ELSE LET rest == Unique(SubSeq(list, 1, Len(list) - 1))
             last == list[Len(list)]
         IN  IF \E i \in DOMAIN rest : rest[i] = last THEN rest ELSE Append(rest, last)

\* The object literal enrichWithOMDb returns on a match.
MergeOmdb(tmdbItem, omdbData) ==
    [title |-> tmdbItem.title, year |-> tmdbItem.year,
     imdbId |-> OrElse(omdbData.imdbID, Absent),
     director |-> OrElse(omdbData.director, Absent),
     posterUrl |-> OrElse(tmdbItem.posterUrl, omdbData.posterUrl),
     overview |->
        IF Truthy(omdbData.overview)
           /\ Len(omdbData.overview.chars) >
                (IF tmdbItem.overview.isString THEN Len(tmdbItem.overview.chars) ELSE 0)
        THEN omdbData.overview
        ELSE OrElse(tmdbItem.overview, omdbData.overview),
     genres |-> [isArray |-> TRUE,
                 items |-> Unique((IF tmdbItem.genres.isArray THEN tmdbItem.genres.items
                                   ELSE <<>>) \o omdbData.genres)],
     enrichedWithOMDb |-> TRUE]

\* What enrichWithOMDb returns once searchOMDbByTitle has returned omdbData.
EnrichResultAlwaysFlagged(tmdbItem, omdbData) ==
    IF omdbData.isNull
    THEN CacheData([f \in DOMAIN tmdbItem.value \cup {"enrichedWithOMDb"} |->
                        IF f = "enrichedWithOMDb" THEN TRUE ELSE tmdbItem.value[f]])
    ELSE CacheData(MergeOmdb(tmdbItem.value, omdbData.value))
EnrichResult(tmdbItem, omdbData) ==
    IF omdbData.isNull THEN tmdbItem
    ELSE CacheData(MergeOmdb(tmdbItem.value, omdbData.value))

MaxOmdbCalls == 2

IdleOmdb ==
    [pc |-> "idle", op |-> "none", imdbId |-> "", title |-> Absent, year |-> Absent,
     item |-> CacheNull, priorSuccess |-> FALSE, upstreamCalls |-> 0,
     searched |-> NoOmdbOutcome, fetched |-> NoOmdbOutcome, result |-> CacheNull]

\* getMovieFromOMDb(imdbId) up to its first await.
GetMovieFromOMDbBegin(imdbId) ==
    /\ omdb.pc = "idle"
    /\ omdbStarted < MaxOmdbCalls
    /\ omdbStarted' = omdbStarted + 1
    /\ omdb' = IF ~omdbApiKey
               THEN [IdleOmdb EXCEPT !.pc = "done", !.op = "getMovieFromOMDb",
                                     !.imdbId = imdbId]
               ELSE [IdleOmdb EXCEPT !.pc = "movieCache", !.op = "getMovieFromOMDb",
                                     !.imdbId = imdbId]
    /\ UNCHANGED <<omdbApiKey, omdbSucceeded, streamVars, dedupVars, cacheVars, bulkVars,
                   genreVars, route, cartoons, usearch>>

\* searchOMDbByTitle(title, year) up to its first await.
SearchOMDbByTitleBegin(title, year) ==
    /\ omdb.pc = "idle"
    /\ omdbStarted < MaxOmdbCalls
    /\ omdbStarted' = omdbStarted + 1
    /\ omdb' = IF ~omdbApiKey
               THEN [IdleOmdb EXCEPT !.pc = "done", !.op = "searchOMDbByTitle",
                                     !.title = title, !.year = year]
               ELSE [IdleOmdb EXCEPT !.pc = "searchCache", !.op = "searchOMDbByTitle",
                                     !.title = title, !.year = year]
    /\ UNCHANGED <<omdbApiKey, omdbSucceeded, streamVars, dedupVars, cacheVars, bulkVars,
                   genreVars, route, cartoons, usearch>>

\* enrichWithOMDb(tmdbItem) up to the first await of its searchOMDbByTitle.
EnrichWithOMDbBegin(tmdbItem) ==
    /\ omdb.pc = "idle"
    /\ omdbStarted < MaxOmdbCalls
    /\ omdbStarted' = omdbStarted + 1
    /\ omdb' = IF ~omdbApiKey \/ tmdbItem.isNull
               THEN [IdleOmdb EXCEPT !.pc = "done", !.op = "enrichWithOMDb",
                                     !.item = tmdbItem, !.result = tmdbItem]
               ELSE [IdleOmdb EXCEPT !.pc = "searchCache", !.op = "enrichWithOMDb",
                                     !.item = tmdbItem, !.title = tmdbItem.value.title,
                                     !.year = tmdbItem.value.year]
    /\ UNCHANGED <<omdbApiKey, omdbSucceeded, streamVars, dedupVars, cacheVars, bulkVars,
                   genreVars, route, cartoons, usearch>>

\* The key of the lookup the operation is in.
OmdbKeyOf(call) ==
    IF call.pc \in {"searchCache", "searchUpstream"}
    THEN OmdbSearchKey(call.title, call.year)
    ELSE OmdbKey(call.imdbId)

\* The lookups a call completes by returning found.
OmdbLookupsOf(call) ==
    (IF call.op = "getMovieFromOMDb" THEN {}
     ELSE {OmdbSearchKey(call.title, call.year)})
    \cup (IF call.imdbId = "" THEN {} ELSE {OmdbKey(call.imdbId)})

\* The lookup returns found to its caller; enrichWithOMDb then returns the
\* item or the merged record.
OmdbFinish(call, found) ==
    /\ omdb' = [call EXCEPT !.pc = "done",
                            !.result = IF call.op = "enrichWithOMDb"
                                       THEN EnrichResult(call.item, found)
                                       ELSE found]
    /\ omdbSucceeded' = IF found.isNull THEN omdbSucceeded
                        ELSE omdbSucceeded
                             \cup {[key |-> k, at |-> now] : k \in OmdbLookupsOf(call)}

\* getCached(cacheKey) of either lookup settles.
OmdbGetCachedReturns(io) ==
    /\ omdb.pc \in {"searchCache", "movieCache"}
    /\ LET key == OmdbKeyOf(omdb)
           file == cacheFiles[GetCachePath(key)]
           got == IF file.kind = "none" THEN [threw |-> FALSE, value |-> CacheNull]
                  ELSE GetCached(file, io, now)
           own == omdb.pc = "movieCache" <=> omdb.op = "getMovieFromOMDb"
           call == [omdb EXCEPT !.priorSuccess =
                        IF own
                        THEN \E h \in omdbSucceeded :
                                h.key = key /\ now - h.at < cacheExpiry
                        ELSE @]
       IN  IF ~got.value.isNull
           THEN OmdbFinish(call, got.value)
           ELSE /\ omdb' = [call EXCEPT
                                !.pc = IF omdb.pc = "searchCache" THEN "searchUpstream"
                                       ELSE "movieUpstream",
                                !.upstreamCalls = @ + 1]
                /\ UNCHANGED omdbSucceeded
    /\ UNCHANGED <<omdbApiKey, omdbStarted, streamVars, dedupVars, cacheVars, bulkVars,
                   genreVars, route, cartoons, usearch>>

\* The axios.get of searchOMDbByTitle settles: null, or on to
\* getMovieFromOMDb(response.data.imdbID).
OmdbSearchReturns(o) ==
    /\ omdb.pc = "searchUpstream"
    /\ LET call == [omdb EXCEPT !.searched = o] IN
       IF o.resolves /\ o.data.Response # "False" /\ Truthy(o.data.imdbID)
       THEN /\ omdb' = [call EXCEPT !.pc = "movieCache",
                                    !.imdbId = o.data.imdbID.chars[1]]
            /\ UNCHANGED omdbSucceeded
       ELSE OmdbFinish(call, CacheNull)
    /\ UNCHANGED <<omdbApiKey, omdbStarted, streamVars, dedupVars, cacheVars, bulkVars,
                   genreVars, route, cartoons, usearch>>

\* The axios.get of getMovieFromOMDb settles; its catch block returns null.
OmdbMovieReturns(o) ==
    /\ omdb.pc = "movieUpstream"
    /\ LET call == [omdb EXCEPT !.fetched = o]
           built == OmdbRecord(omdb.imdbId, o.data)
       IN  IF o.resolves /\ ~built.threw
           THEN OmdbFinish(call, built.value)
           ELSE OmdbFinish(call, CacheNull)
    /\ UNCHANGED <<omdbApiKey, omdbStarted, streamVars, dedupVars, cacheVars, bulkVars,
                   genreVars, route, cartoons, usearch>>

\* The caller takes the result.
OmdbReturn ==
    /\ omdb.pc = "done"
    /\ omdb' = IdleOmdb
    /\ UNCHANGED <<omdbApiKey, omdbStarted, omdbSucceeded, streamVars, dedupVars,
                   cacheVars, bulkVars, genreVars, route, cartoons, usearch>>

OmdbIdle ==
    /\ omdbApiKey = FALSE
    /\ omdbStarted = 0
    /\ omdb = IdleOmdb
    /\ omdbSucceeded = {}

(***************************************************************************)
(* Genre maps                                                              *)
(***************************************************************************)

\* genre.forEach(genre => this.genreMap[type][genre.id] = genre.name)
LoadGenresResetting(map, type, list) == [EmptyGenreMap EXCEPT ![type] = list]
LoadGenres(map, type, list) ==
    [map EXCEPT ![type] =
        {e \in @ : ~\E n \in list : n[1] = e[1]} \cup list]

MaxInits == 3
InitSlots == 1..MaxInits

\* The genre ids a caller of GET /genres or of an adapter maps.
CallerGenreIds == <<16, 28>>

IdleInit ==
    [pc |-> "idle", overlapped |-> FALSE, succeeded |-> FALSE, mapped |-> <<>>]

\* What an invocation leaves when it returns: whether both lists were
\* loaded, and what its caller then maps.
InitGenresDone(call, succeeded, map) ==
    [call EXCEPT !.pc = "done", !.succeeded = succeeded,
                 !.mapped = MapGenres(CallerGenreIds, "movie", map)]

\* initGenres() up to its first await; without the credential it returns.
InitGenresBegin(s) ==
    /\ inits[s].pc = "idle"
    /\ \A t \in 1..(s - 1) : inits[t].pc # "idle"
    /\ LET call == [IdleInit EXCEPT !.overlapped =
                        \E t \in InitSlots : inits[t].pc \in {"movieList", "tvList"}]
       IN  inits' = [inits EXCEPT ![s] =
                IF ~tmdbApiKey THEN InitGenresDone(call, FALSE, genreMap)
                ELSE [call EXCEPT !.pc = "movieList"]]
    /\ UNCHANGED <<genreMap, streamVars, dedupVars, cacheVars, bulkVars, omdbVars,
                   route, cartoons, usearch>>

\* The request for genre/movie/list settles.
GenreMovieListReturns(s, resolves) ==
    /\ inits[s].pc = "movieList"
    /\ IF resolves
       THEN /\ genreMap' = LoadGenres(genreMap, "movie", MovieGenres)
            /\ inits' = [inits EXCEPT ![s].pc = "tvList"]
       ELSE /\ inits' = [inits EXCEPT ![s] = InitGenresDone(@, FALSE, genreMap)]
            /\ UNCHANGED genreMap
    /\ UNCHANGED <<streamVars, dedupVars, cacheVars, bulkVars, omdbVars, route, cartoons,
                   usearch>>

\* The request for genre/tv/list settles.
GenreTvListReturns(s, resolves) ==
    /\ inits[s].pc = "tvList"
    /\ IF resolves
       THEN /\ genreMap' = LoadGenres(genreMap, "tv", TvGenres)
            /\ inits' = [inits EXCEPT ![s] = InitGenresDone(@, TRUE, genreMap')]
       ELSE /\ inits' = [inits EXCEPT ![s] = InitGenresDone(@, FALSE, genreMap)]
            /\ UNCHANGED genreMap
    /\ UNCHANGED <<streamVars, dedupVars, cacheVars, bulkVars, omdbVars, route, cartoons,
                   usearch>>

\* The maps loaded before the modelled calls begin, no invocation in flight.
GenresIdle ==
    /\ genreMap = IF tmdbApiKey THEN FullGenreMap ELSE EmptyGenreMap
    /\ inits = [s \in InitSlots |-> IdleInit]

(***************************************************************************)
(* Streaming route: GET /api/streaming/:mediaId                            *)
(***************************************************************************)

\* The id prefixes of the records, as characters.
PrefixText(prefix) ==
    CASE prefix = "tmdb_movie_" -> <<"t", "m", "d", "b", "_", "m", "o", "v", "i", "e", "_">>
      [] prefix = "tmdb_tv_" -> <<"t", "m", "d", "b", "_", "t", "v", "_">>
      [] prefix = "anime_" -> <<"a", "n", "i", "m", "e", "_">>
      [] prefix = "jikan_anime_" ->
            <<"j", "i", "k", "a", "n", "_", "a", "n", "i", "m", "e", "_">>
      [] prefix = "anilist_anime_" ->
            <<"a", "n", "i", "l", "i", "s", "t", "_", "a", "n", "i", "m", "e", "_">>

\* The id template of the records each adapter emits.
IdPrefixOf(adapter) ==
    CASE adapter = "getTrendingMovies" -> "tmdb_movie_"
      [] adapter = "getPopularTVShows" -> "tmdb_tv_"
      [] adapter = "searchAnime" -> "anime_"
      [] adapter = "getPopularAnimeFromJikan" -> "jikan_anime_"
      [] adapter = "getPopularAnimeFromAniList" -> "anilist_anime_"

AnimeAdapters == {"searchAnime", "getPopularAnimeFromJikan", "getPopularAnimeFromAniList"}
RecordAdapters == AnimeAdapters \cup {"getTrendingMovies", "getPopularTVShows"}

\* `${prefix}${n}`
IdText(id) == PrefixText(id[1]) \o <<ToString(id[2])>>

\* mediaId.startsWith(prefix) and mediaId.replace(prefix, '') behind it.
StartsWith(text, prefix) ==
    Len(text) >= Len(prefix) /\ SubSeq(text, 1, Len(prefix)) = prefix
WithoutPrefix(text, prefix) == SubSeq(text, Len(prefix) + 1, Len(text))

\* The responses of the route.
AnilistIdNotFound ==
    [status |-> 400,
     error |-> "Anilist ID not found for this anime. Some anime may not have streaming available yet."]
InvalidMediaId == [status |-> 400, error |-> "Invalid media ID format"]
StreamingNotAvailable == [status |-> 404, error |-> "Streaming not available from any source."]
StreamingFound == [status |-> 200, error |-> ""]
NoResponse == [status |-> 0, error |-> ""]

\* The pages getPopularAnimeFromJikan(1) may return to the route.
PopularAnimePages ==
    {<<>>} \cup {MapResponse("getPopularAnimeFromJikan", FullBody, c, EmptyGenreMap).results
                    : c \in BOOLEAN}

\* popularAnime.find(a => a.id === mediaId), and the anilistId taken from it.
AnilistIdFound(popularAnime, mediaId) ==
    IF \E i \in DOMAIN popularAnime :
            /\ IdText(popularAnime[i].id) = mediaId
            /\ popularAnime[i].anilistId \notin {Undefined, Missing}
    THEN Str(<<(CHOOSE a \in {popularAnime[i] : i \in DOMAIN popularAnime} :
                    IdText(a.id) = mediaId /\ a.anilistId \notin {Undefined, Missing}).anilistId>>)
    ELSE Absent

IdleRoute ==
    [pc |-> "idle", emitter |-> "none", mediaId |-> <<>>, query |-> Absent,
     type |-> Absent, actualType |-> Absent, id |-> Absent, anilistId |-> Absent, lookedUp |-> FALSE,
     resolveInvoked |-> FALSE, response |-> NoResponse]

\* What follows the prefix tests once anilistId is settled: the answer for
\* an anime without one, the answer for an id of no known format, or the
\* call of getStreamingUrl with checkAvailability.
RouteAfterPrefix(call) ==
    IF StartsWith(call.mediaId, PrefixText("anime_"))
    THEN IF ~Truthy(call.anilistId)
         THEN [call EXCEPT !.pc = "done", !.response = AnilistIdNotFound,
                           !.id = Str(WithoutPrefix(call.mediaId, PrefixText("anime_")))]
         ELSE [call EXCEPT !.pc = "resolving", !.resolveInvoked = TRUE,
                           !.id = call.anilistId]
    ELSE IF ~Truthy(call.id)
         THEN [call EXCEPT !.pc = "done", !.response = InvalidMediaId]
         ELSE [call EXCEPT !.pc = "resolving", !.resolveInvoked = TRUE]

\* The handler up to its first await.
RouteBegin(emitter, n, type, anilistIdQuery) ==
    /\ route.pc = "idle"
    /\ LET mediaId == IdText(<<IdPrefixOf(emitter), n>>)
           call == [IdleRoute EXCEPT !.emitter = emitter, !.mediaId = mediaId,
                                     !.query = anilistIdQuery, !.type = type,
                                     !.actualType = type]
       IN  route' =
            IF StartsWith(mediaId, PrefixText("tmdb_movie_"))
            THEN RouteAfterPrefix(
                    [call EXCEPT !.id = Str(WithoutPrefix(mediaId, PrefixText("tmdb_movie_"))),
                                 !.actualType = Str(<<"movie">>)])
            ELSE IF StartsWith(mediaId, PrefixText("tmdb_tv_"))
            THEN RouteAfterPrefix(
                    [call EXCEPT !.id = Str(WithoutPrefix(mediaId, PrefixText("tmdb_tv_"))),
                                 !.actualType = Str(<<"tv">>)])
            ELSE IF StartsWith(mediaId, PrefixText("anime_"))
            THEN IF ~Truthy(anilistIdQuery)
                 THEN [call EXCEPT !.pc = "popular", !.actualType = Str(<<"anime">>)]
                 ELSE RouteAfterPrefix([call EXCEPT !.actualType = Str(<<"anime">>),
                                                    !.anilistId = anilistIdQuery])
            ELSE RouteAfterPrefix(call)
    /\ UNCHANGED <<cartoons, usearch, streamVars, dedupVars, cacheVars, bulkVars, omdbVars,
                   genreVars>>

\* getPopularAnimeFromJikan(1) returns.
RoutePopularReturns(popularAnime) ==
    /\ route.pc = "popular"
    /\ route' = RouteAfterPrefix(
                    [route EXCEPT !.lookedUp = TRUE,
                                  !.anilistId = AnilistIdFound(popularAnime, route.mediaId)])
    /\ UNCHANGED <<cartoons, usearch, streamVars, dedupVars, cacheVars, bulkVars, omdbVars,
                   genreVars>>

\* getStreamingUrl(id, actualType, options, true) returns a URL or null.
RouteResolveReturns(found) ==
    /\ route.pc = "resolving"
    /\ route' = [route EXCEPT !.pc = "done",
                              !.response = IF found THEN StreamingFound
                                           ELSE StreamingNotAvailable]
    /\ UNCHANGED <<cartoons, usearch, streamVars, dedupVars, cacheVars, bulkVars, omdbVars,
                   genreVars>>

\* The response is sent.
RouteReturn ==
    /\ route.pc = "done"
    /\ route' = IdleRoute
    /\ UNCHANGED <<cartoons, usearch, streamVars, dedupVars, cacheVars, bulkVars, omdbVars,
                   genreVars>>

(***************************************************************************)
(* getCartoons                                                             *)
(***************************************************************************)

CartoonsKey(page) == <<"cartoons_all_", page>>

\* The five adapters getCartoons calls, in the order of its Promise.all.
CartoonProviders ==
    <<"getMoviesByGenre", "getTVShowsByGenre", "getPopularAnimeFromAniList",
      "getTopRatedAnimationMovies", "getTopRatedAnimationTV">>

CartoonRecord(title, type, source, posterUrl, backdropUrl) ==
    [title |-> Str(title), originalTitle |-> Absent, year |-> Str(Y2021),
     releaseDate |-> Absent, type |-> type, source |-> Str(<<source>>),
     hasStreaming |-> FALSE, posterUrl |-> posterUrl,
     genres |-> [isArray |-> TRUE, items |-> <<>>], backdropUrl |-> backdropUrl,
     anilistId |-> Missing]

\* What each of them returns when its provider is well: the same title from
\* three of them, one record with a backdrop only, one without any image.
ProviderRecords(i) ==
    CASE i = 1 -> <<CartoonRecord(Dune, "movie", "tmdb", Poster, Absent)>>
      [] i = 2 -> <<CartoonRecord(DuneBangs, "tv", "tmdb", Poster, Absent)>>
      [] i = 3 -> <<CartoonRecord(DuNe, "anime", "anilist", Absent, Poster)>>
      [] i = 4 -> <<CartoonRecord(Dune, "movie", "tmdb", Poster, Absent)>>
      [] i = 5 -> <<CartoonRecord(DuneSpaced, "tv", "tmdb", Absent, Absent)>>

\* How the five settle: records, the [] of an adapter that caught its own
\* error, or a rejection, which .catch(() => []) turns into [].
SubOutcomes ==
    {o \in [1..5 -> {"records", "empty", "rejected"}] :
        \/ \A i \in 1..5 : o[i] = "empty"
        \/ \A i \in 3..5 : o[i] # "empty"}
NoSubOutcomes == [i \in 1..5 |-> "none"]
SubResult(i, kind) == IF kind = "records" THEN ProviderRecords(i) ELSE <<>>

\* item && item.title && (item.posterUrl || item.backdropUrl)
CartoonFilter(item) ==
    Truthy(item.title) /\ (Truthy(item.posterUrl) \/ Truthy(item.backdropUrl))

\* The statements of getCartoons between Promise.all and setCache.
Aggregate(outcomes) ==
    DeduplicateMedia(
        SelectSeq(Flatten([i \in 1..5 |-> SubResult(i, outcomes[i])]), CartoonFilter))

\* if (cached) return cached: an empty array is returned as well.
CartoonsHitNonEmpty(cached) == ~cached.isNull /\ cached.value # <<>>
CartoonsHit(cached) == ~cached.isNull

IdleCartoons ==
    [pc |-> "idle", page |-> 0, lookedUp |-> FALSE, seen |-> NoFile, readAt |-> 0,
     readFailed |-> FALSE, cached |-> CacheNull, providerCalls |-> 0,
     outcomes |-> NoSubOutcomes, stamp |-> 0, results |-> <<>>,
     writeFailed |-> FALSE, result |-> <<>>]

\* getCartoons(page) up to its first await.
GetCartoonsBegin(page) ==
    /\ cartoons.pc = "idle"
    /\ started < MaxCalls
    /\ started' = started + 1
    /\ cartoons' = IF ~tmdbApiKey
                   THEN [IdleCartoons EXCEPT !.pc = "fallback", !.page = page,
                                             !.providerCalls = 1]
                   ELSE [IdleCartoons EXCEPT !.pc = "lookup", !.page = page]
    /\ UNCHANGED <<tmdbApiKey, now, advances, cacheFiles, calls, route, usearch, streamVars,
                   dedupVars, bulkVars, omdbVars, genreVars>>

\* Without the TMDB credential: getPopularAnimeFromJikan(page) returns, or
\* its rejection is turned into [].
CartoonsFallbackReturns(records) ==
    /\ cartoons.pc = "fallback"
    /\ cartoons' = [cartoons EXCEPT !.pc = "done", !.result = records]
    /\ UNCHANGED <<tmdbApiKey, now, advances, started, cacheFiles, calls, route, usearch,
                   streamVars, dedupVars, bulkVars, omdbVars, genreVars>>

\* getCached(cacheKey) settles: the cached aggregate is returned, or the
\* five adapters are called.
CartoonsGetCachedReturns(io) ==
    /\ cartoons.pc = "lookup"
    /\ LET file == cacheFiles[GetCachePath(CartoonsKey(cartoons.page))]
           got == IF file.kind = "none" THEN [threw |-> FALSE, value |-> CacheNull]
                  ELSE GetCached(file, io, now)
           call == [cartoons EXCEPT !.lookedUp = TRUE, !.seen = file, !.readAt = now,
                                    !.readFailed = (file.kind # "none" /\ io = "error"),
                                    !.cached = got.value]
       IN  cartoons' = IF CartoonsHit(got.value)
                       THEN [call EXCEPT !.pc = "done", !.result = got.value.value]
                       ELSE [call EXCEPT !.pc = "fetching",
                                         !.providerCalls = Len(CartoonProviders)]
    /\ UNCHANGED <<tmdbApiKey, now, advances, started, cacheFiles, calls, route, usearch,
                   streamVars, dedupVars, bulkVars, omdbVars, genreVars>>

\* The Promise.all of the five adapters resolves; the aggregate is filtered
\* and deduplicated and setCache is called.
CartoonsProvidersReturn(outcomes) ==
    /\ cartoons.pc = "fetching"
    /\ cartoons' = [cartoons EXCEPT !.pc = "writeOpen", !.outcomes = outcomes,
                                    !.results = Aggregate(outcomes), !.stamp = now]
    /\ UNCHANGED <<tmdbApiKey, now, advances, started, cacheFiles, calls, route, usearch,
                   streamVars, dedupVars, bulkVars, omdbVars, genreVars>>

\* The write of setCache opens the file.
CartoonsSetCacheOpens(io) ==
    /\ cartoons.pc = "writeOpen"
    /\ LET path == GetCachePath(CartoonsKey(cartoons.page))
           written == SetCacheCatch(WriteJsonOpen(cacheFiles[path], io))
       IN  /\ cacheFiles' = [cacheFiles EXCEPT ![path] = written.file]
           /\ cartoons' = IF io = "error"
                           THEN [cartoons EXCEPT !.pc = "done", !.writeFailed = TRUE,
                                                 !.result = cartoons.results]
                           ELSE [cartoons EXCEPT !.pc = "writeFinish"]
    /\ UNCHANGED <<tmdbApiKey, now, advances, started, calls, route, usearch, streamVars,
                   dedupVars, bulkVars, omdbVars, genreVars>>

\* The write of setCache completes or fails, and getCartoons returns.
CartoonsSetCacheReturns(io) ==
    /\ cartoons.pc = "writeFinish"
    /\ LET path == GetCachePath(CartoonsKey(cartoons.page))
           written == SetCacheCatch(WriteJsonFinish(cacheFiles[path], io, cartoons.stamp,
                                                    cartoons.results))
       IN  /\ cacheFiles' = [cacheFiles EXCEPT ![path] = written.file]
           /\ cartoons' = [cartoons EXCEPT !.pc = "done", !.writeFailed = (io = "error"),
                                           !.result = cartoons.results]
    /\ UNCHANGED <<tmdbApiKey, now, advances, started, calls, route, usearch, streamVars,
                   dedupVars, bulkVars, omdbVars, genreVars>>

\* The caller takes the result.
CartoonsReturn ==
    /\ cartoons.pc = "done"
    /\ cartoons' = IdleCartoons
    /\ UNCHANGED <<tmdbApiKey, now, advances, started, cacheFiles, calls, route, usearch,
                   streamVars, dedupVars, bulkVars, omdbVars, genreVars>>

(***************************************************************************)
(* universalSearch                                                         *)
(***************************************************************************)

\* A record of searchMovies, searchTVShows or searchAnime: the fields
\* deduplicateMedia and the sort read.
SearchRecord(id, title, year, type, source, posterUrl, popularity, rating) ==
    [id |-> id, title |-> Str(title), originalTitle |-> Absent, year |-> year,
     releaseDate |-> Absent, type |-> type, source |-> Str(<<source>>),
     hasStreaming |-> FALSE, posterUrl |-> posterUrl,
     genres |-> [isArray |-> TRUE, items |-> <<>>],
     popularity |-> popularity, rating |-> rating]

\* What the three searches may return for a query.
MovieResults ==
    {<<>>,
     <<SearchRecord(<<"tmdb_movie_", 1>>, Dune, Str(Y2021), "movie", "tmdb", Poster, 40, 8)>>,
     <<SearchRecord(<<"tmdb_movie_", 1>>, Dune, Str(Y2021), "movie", "tmdb", Absent, 40, 8),
       SearchRecord(<<"tmdb_movie_", 2>>, DuneBangs, Str(Y2020), "movie", "tmdb", Poster, 90, 6)>>,
     <<SearchRecord(<<"tmdb_movie_", 3>>, DuneSpaced, Str(Y2020), "movie", "tmdb", Poster, 1, 1)>>,
     <<SearchRecord(<<"tmdb_movie_", 4>>, Bangs, Absent, "movie", "tmdb", Poster, 5, 5)>>}
TvResults ==
    {<<>>,
     <<SearchRecord(<<"tmdb_tv_", 1>>, DuneBangs, Str(Y2021), "tv", "tmdb", Poster, 10, 7)>>,
     <<SearchRecord(<<"tmdb_tv_", 2>>, DuNe, Str(Y2021), "tv", "tmdb", Poster, 20, 0),
       SearchRecord(<<"tmdb_tv_", 3>>, DuneSpaced, Str(Y2020), "tv", "tmdb", Poster, 0, 9)>>,
     <<SearchRecord(<<"tmdb_tv_", 5>>, DuNe, Str(Y2020), "tv", "tmdb", Absent, 30, 3)>>,
     <<SearchRecord(<<"tmdb_tv_", 4>>, Bangs, Absent, "tv", "tmdb", Poster, 5, 5)>>}
AnimeResults ==
    {<<>>,
     <<SearchRecord(<<"anime_", 1>>, DuneSpaced, Str(Y2021), "anime", "jikan", Poster, 3, 9)>>,
     <<SearchRecord(<<"anime_", 2>>, DuNe, Str(Y2021), "anime", "jikan", Absent, 70, 7)>>,
     <<SearchRecord(<<"anime_", 3>>, Dune, Str(Y2020), "anime", "jikan", Poster, 2, 2),
       SearchRecord(<<"anime_", 1>>, DuneSpaced, Str(Y2021), "anime", "jikan", Poster, 3, 9)>>,
     <<SearchRecord(<<"anime_", 4>>, Bangs, Absent, "anime", "jikan", Poster, 5, 5)>>}

\* (popularity || 0) + (rating || 0) * 10
Score(media) == media.popularity + media.rating * 10

\* The comparator: its scoreA is taken from b and its scoreB from a, and it
\* returns scoreB - scoreA, which is negative when a scores lower than b.
CompareRelevance(a, b) == Score(a) - Score(b)

\* Array.prototype.sort with that comparator: stable, a before b when the
\* comparator is negative.
RECURSIVE SortByRelevance(_)
InsertByRelevance(x, sorted) ==
    LET after == {i \in DOMAIN sorted : CompareRelevance(x, sorted[i]) < 0}
        at == IF after = {} THEN Len(sorted) + 1
              ELSE CHOOSE i \in after : \A j \in after : i <= j
    IN  SubSeq(sorted, 1, at - 1) \o <<x>> \o SubSeq(sorted, at, Len(sorted))
SortByRelevance(list) ==
    IF list = <<>> THEN <<>>
    ELSE InsertByRelevance(list[Len(list)], SortByRelevance(SubSeq(list, 1, Len(list) - 1)))

\* The statements of universalSearch after its Promise.all.
UniversalSearchPerList(movies, tvShows, anime) ==
    SortByRelevance(DeduplicateMedia(movies) \o DeduplicateMedia(tvShows)
                    \o DeduplicateMedia(anime))
UniversalSearchResult(movies, tvShows, anime) ==
    SortByRelevance(DeduplicateMedia(movies \o tvShows \o anime))

IdleSearch ==
    [pc |-> "idle", movies |-> <<>>, tvShows |-> <<>>, anime |-> <<>>, result |-> <<>>]

\* universalSearch(query, page) up to its await.
UniversalSearchBegin ==
    /\ usearch.pc = "idle"
    /\ usearch' = [IdleSearch EXCEPT !.pc = "searching"]
    /\ UNCHANGED <<route, cartoons, streamVars, dedupVars, cacheVars, bulkVars, omdbVars,
                   genreVars>>

\* The three searches have returned.
UniversalSearchReturns(movies, tvShows, anime) ==
    /\ usearch.pc = "searching"
    /\ usearch' = [pc |-> "done", movies |-> movies, tvShows |-> tvShows,
                   anime |-> anime,
                   result |-> UniversalSearchResult(movies, tvShows, anime)]
    /\ UNCHANGED <<route, cartoons, streamVars, dedupVars, cacheVars, bulkVars, omdbVars,
                   genreVars>>


(***************************************************************************)
(* Specifications: one per subsystem, the other subsystems at rest         *)
(***************************************************************************)

LateIdle ==
    /\ OmdbIdle
    /\ GenresIdle
    /\ route = IdleRoute
    /\ cartoons = IdleCartoons
    /\ usearch = IdleSearch

InitStream ==
    /\ useCinetaro \in BOOLEAN
    /\ fallbackSources \in FallbackSourceLists
    /\ pc = "idle"
    /\ op = "none"
    /\ req = NoRequest
    /\ idx = 0
    /\ probed = <<>>
    /\ lastProbe = NoProbe
    /\ result = Null
    /\ available = FALSE
    /\ DedupIdle
    /\ CacheIdle
    /\ BulkIdle
    /\ LateIdle

NextStream ==
    \/ \E r \in Requests : GetStreamingUrlSync(r)
    \/ \E r \in Requests : GetStreamingUrlFast(r)
    \/ \E r \in Requests, caller \in {"verified", "check"} : GetStreamingUrlBegin(r, caller)
    \/ \E o \in Outcomes : ProbeReturns(o)
    \/ ResolverReturn

SpecStream == InitStream /\ [][NextStream]_vars

InitDedup ==
    /\ mediaArray \in MediaArrays
    /\ dpc = "input"
    /\ deduped = <<>>
    /\ dedupedAgain = <<>>
    /\ StreamIdle
    /\ CacheIdle
    /\ BulkIdle
    /\ LateIdle

NextDedup == Deduplicate \/ DeduplicateAgain

SpecDedup == InitDedup /\ [][NextDedup]_vars

InitCache ==
    /\ tmdbApiKey \in BOOLEAN
    /\ now = 2
    /\ advances = 0
    /\ started = 0
    /\ cacheFiles \in InitialCaches
    /\ calls = [s \in Slots |-> IdleCall]
    /\ useCinetaro \in BOOLEAN
    /\ fallbackSources = [i \in 1..Len(SourceNames) |->
            [name |-> SourceNames[i], baseUrl |-> BaseUrlOf(SourceNames[i]),
             priority |-> i, enabled |-> TRUE]]
    /\ pc = "idle"
    /\ op = "none"
    /\ req = NoRequest
    /\ idx = 0
    /\ probed = <<>>
    /\ lastProbe = NoProbe
    /\ result = Null
    /\ available = FALSE
    /\ DedupIdle
    /\ BulkIdle
    /\ LateIdle

NextCache ==
    \/ \E s \in Slots, a \in Adapters, p \in Pages : AdapterBegin(s, a, p)
    \/ \E s \in Slots : PathExists(s)
    \/ \E s \in Slots, io \in {"ok", "error"} : ReadJsonReturns(s, io)
    \/ \E s \in Slots, o \in UpstreamOutcomes : UpstreamReturns(s, o)
    \/ \E s \in Slots, io \in {"ok", "error"} : SetCacheOpens(s, io)
    \/ \E s \in Slots, io \in {"ok", "error"} : SetCacheReturns(s, io)
    \/ \E s \in Slots : AdapterReturn(s)
    \/ \E d \in {1, cacheExpiry - 1} : Tick(d)

SpecCache == InitCache /\ [][NextCache]_vars

InitOmdb ==
    /\ omdbApiKey \in BOOLEAN
    /\ omdbStarted = 0
    /\ omdb = IdleOmdb
    /\ omdbSucceeded = {}
    /\ StreamIdle
    /\ DedupIdle
    /\ CacheIdle
    /\ BulkIdle
    /\ GenresIdle
    /\ route = IdleRoute
    /\ cartoons = IdleCartoons
    /\ usearch = IdleSearch

NextOmdb ==
    \/ \E i \in ImdbIds : GetMovieFromOMDbBegin(i)
    \/ \E t \in OmdbTitles, y \in OmdbYears : SearchOMDbByTitleBegin(t, y)
    \/ \E item \in TmdbItems : EnrichWithOMDbBegin(item)
    \/ \E io \in {"ok", "error"} : OmdbGetCachedReturns(io)
    \/ \E o \in OmdbSearchOutcomes : OmdbSearchReturns(o)
    \/ \E o \in OmdbMovieOutcomes : OmdbMovieReturns(o)
    \/ OmdbReturn
    \/ \E d \in {1, cacheExpiry - 1} : Tick(d)

SpecOmdb == InitOmdb /\ [][NextOmdb]_vars

\* The constructor has started initGenres; trending pages are requested
\* while it runs, and initGenres is invoked again.
InitGenres ==
    /\ tmdbApiKey \in BOOLEAN
    /\ now = 2
    /\ advances = 0
    /\ started = 0
    /\ cacheFiles = [p \in CachePaths |-> NoFile]
    /\ calls = [s \in Slots |-> IdleCall]
    /\ genreMap = EmptyGenreMap
    /\ inits = [s \in InitSlots |->
                    IF s = 1
                    THEN IF tmdbApiKey THEN [IdleInit EXCEPT !.pc = "movieList"]
                         ELSE InitGenresDone(IdleInit, FALSE, EmptyGenreMap)
                    ELSE IdleInit]
    /\ useCinetaro \in BOOLEAN
    /\ fallbackSources = [i \in 1..Len(SourceNames) |->
            [name |-> SourceNames[i], baseUrl |-> BaseUrlOf(SourceNames[i]),
             priority |-> i, enabled |-> TRUE]]
    /\ pc = "idle"
    /\ op = "none"
    /\ req = NoRequest
    /\ idx = 0
    /\ probed = <<>>
    /\ lastProbe = NoProbe
    /\ result = Null
    /\ available = FALSE
    /\ DedupIdle
    /\ BulkIdle
    /\ OmdbIdle
    /\ route = IdleRoute
    /\ cartoons = IdleCartoons
    /\ usearch = IdleSearch

NextGenres ==
    \/ \E s \in InitSlots : InitGenresBegin(s)
    \/ \E s \in InitSlots, resolves \in BOOLEAN : GenreMovieListReturns(s, resolves)
    \/ \E s \in InitSlots, resolves \in BOOLEAN : GenreTvListReturns(s, resolves)
    \/ \E s \in Slots : AdapterBegin(s, "getTrendingMovies", 1)
    \/ \E s \in Slots : PathExists(s)
    \/ \E s \in Slots, io \in {"ok", "error"} : ReadJsonReturns(s, io)
    \/ \E s \in Slots, o \in UpstreamOutcomes : UpstreamReturns(s, o)
    \/ \E s \in Slots, io \in {"ok", "error"} : SetCacheOpens(s, io)
    \/ \E s \in Slots, io \in {"ok", "error"} : SetCacheReturns(s, io)
    \/ \E s \in Slots : AdapterReturn(s)

SpecGenres == InitGenres /\ [][NextGenres]_vars

InitRoute ==
    /\ route = IdleRoute
    /\ StreamIdle
    /\ DedupIdle
    /\ CacheIdle
    /\ BulkIdle
    /\ OmdbIdle
    /\ GenresIdle
    /\ cartoons = IdleCartoons
    /\ usearch = IdleSearch

NextRoute ==
    \/ \E e \in RecordAdapters, n \in {1, 3},
          type \in {Absent, Str(<<"movie">>), Str(<<"anime">>)},
          q \in {Absent, Str(<<"21">>)} : RouteBegin(e, n, type, q)
    \/ \E page \in PopularAnimePages : RoutePopularReturns(page)
    \/ \E found \in BOOLEAN : RouteResolveReturns(found)
    \/ RouteReturn

SpecRoute == InitRoute /\ [][NextRoute]_vars

\* Calls of getPopularAnimeFromJikan(1) that overlap, as those of
\* getFeatured and of the anime routes do.
OverlapSlots == 1..(MaxConcurrent + 1)

InitOverlap ==
    /\ tmdbApiKey = FALSE
    /\ now = 2
    /\ advances = 0
    /\ started = 0
    /\ cacheFiles \in
            {[p \in CachePaths |-> NoFile],
             [p \in CachePaths |->
                IF p = GetCachePath(CacheKey("getPopularAnimeFromJikan", 1))
                THEN EarlierEntry("getPopularAnimeFromJikan") ELSE NoFile]}
    /\ calls = [s \in OverlapSlots |-> IdleCall]
    /\ useCinetaro \in BOOLEAN
    /\ fallbackSources = [i \in 1..Len(SourceNames) |->
            [name |-> SourceNames[i], baseUrl |-> BaseUrlOf(SourceNames[i]),
             priority |-> i, enabled |-> TRUE]]
    /\ pc = "idle"
    /\ op = "none"
    /\ req = NoRequest
    /\ idx = 0
    /\ probed = <<>>
    /\ lastProbe = NoProbe
    /\ result = Null
    /\ available = FALSE
    /\ DedupIdle
    /\ BulkIdle
    /\ LateIdle

NextOverlap ==
    \/ \E s \in OverlapSlots : AdapterBegin(s, "getPopularAnimeFromJikan", 1)
    \/ \E s \in OverlapSlots : PathExists(s)
    \/ \E s \in OverlapSlots, io \in {"ok", "error"} : ReadJsonReturns(s, io)
    \/ \E s \in OverlapSlots, o \in UpstreamOutcomes : UpstreamReturns(s, o)
    \/ \E s \in OverlapSlots, io \in {"ok", "error"} : SetCacheOpens(s, io)
    \/ \E s \in OverlapSlots, io \in {"ok", "error"} : SetCacheReturns(s, io)

SpecOverlap == InitOverlap /\ [][NextOverlap]_vars

InitCartoons ==
    /\ tmdbApiKey \in BOOLEAN
    /\ now = 2
    /\ advances = 0
    /\ started = 0
    /\ cacheFiles = [p \in CachePaths |-> NoFile]
    /\ calls = [s \in Slots |-> IdleCall]
    /\ cartoons = IdleCartoons
    /\ StreamIdle
    /\ DedupIdle
    /\ BulkIdle
    /\ OmdbIdle
    /\ GenresIdle
    /\ route = IdleRoute
    /\ usearch = IdleSearch

NextCartoons ==
    \/ \E p \in Pages : GetCartoonsBegin(p)
    \/ \E records \in {<<>>, ProviderRecords(3)} : CartoonsFallbackReturns(records)
    \/ \E io \in {"ok", "error"} : CartoonsGetCachedReturns(io)
    \/ \E outcomes \in SubOutcomes : CartoonsProvidersReturn(outcomes)
    \/ \E io \in {"ok", "error"} : CartoonsSetCacheOpens(io)
    \/ \E io \in {"ok", "error"} : CartoonsSetCacheReturns(io)
    \/ CartoonsReturn
    \/ \E d \in {1, cacheExpiry - 1} : Tick(d)

SpecCartoons == InitCartoons /\ [][NextCartoons]_vars

InitSearch ==
    /\ usearch = IdleSearch
    /\ StreamIdle
    /\ DedupIdle
    /\ CacheIdle
    /\ BulkIdle
    /\ OmdbIdle
    /\ GenresIdle
    /\ route = IdleRoute
    /\ cartoons = IdleCartoons

NextSearch ==
    \/ UniversalSearchBegin
    \/ \E movies \in MovieResults, tvShows \in TvResults, anime \in AnimeResults :
            UniversalSearchReturns(movies, tvShows, anime)

SpecSearch == InitSearch /\ [][NextSearch]_vars

InitBulk ==
    /\ endpoints \in EndpointLists
    /\ startPage \in 1..MaxStartPage
    /\ pageCount \in 0..MaxPageCount
    /\ batchSize \in 1..MaxBatchSize
    /\ bpc = "idle"
    /\ endpointIdx = 0
    /\ batchStart = 0
    /\ fetching = {}
    /\ arrived = <<>>
    /\ endpointItems = <<>>
    /\ allItems = <<>>
    /\ batches = <<>>
    /\ waits = <<>>
    /\ pageItems = {}
    /\ outOfOrder = FALSE
    /\ aborted = {}
    /\ StreamIdle
    /\ DedupIdle
    /\ CacheIdle
    /\ LateIdle

NextBulk ==
    \/ BulkLoadBegin
    \/ \E f \in fetching, kind \in {"records", "empty", "rejected"} : FetchSettles(f, kind)
    \/ BatchCompletes
    \/ DelayElapses

SpecBulk == InitBulk /\ [][NextBulk]_vars

\* The page fetches a call of bulkLoad can make.
BulkFetches ==
    {[endpoint |-> e, page |-> i] :
        e \in 1..MaxEndpoints, i \in 1..(MaxStartPage + MaxPageCount - 1)}

\* The event loop runs a continuation that is ready (the one of Promise.all,
\* the one of the delay's timer), and every page fetch settles: each adapter
\* call is bounded by its own timeout.  Nothing forces a caller to call.
FairBulk ==
    /\ WF_vars(BatchCompletes)
    /\ WF_vars(DelayElapses)
    /\ \A f \in BulkFetches :
          WF_vars(\E kind \in {"records", "empty", "rejected"} : FetchSettles(f, kind))

SpecBulkFair == InitBulk /\ [][NextBulk]_vars /\ FairBulk

(***************************************************************************)
(* Properties of the fallback streaming resolver                           *)
(***************************************************************************)

EnabledSources ==
    {fallbackSources[i] : i \in {j \in DOMAIN fallbackSources : fallbackSources[j].enabled}}

SourceNamed(name) ==
    CHOOSE s \in {fallbackSources[i] : i \in DOMAIN fallbackSources} : s.name = name

\* The enabled sources whose template builds a URL for the current request.
BuildingSources ==
    {s \in EnabledSources :
        GetStreamingUrlFromSource(req.id, req.type, req.options, s) # Null}

UrlOfSource(s) == GetStreamingUrlFromSource(req.id, req.type, req.options, s)

\* The URL the enabled source of smallest priority builds, null without one.
TopPriorityUrl ==
    IF EnabledSources = {} THEN Null
    ELSE UrlOfSource(CHOOSE s \in EnabledSources :
                        \A t \in EnabledSources : s.priority <= t.priority)

Is2xx(outcome) ==
    outcome.kind = "status" /\ outcome.status >= 200 /\ outcome.status <= 299

\* C1: verified resolve probes the enabled sources in strictly ascending
\* priority, skipping none that builds a URL; a probe judged live is the last
\* one issued, every probe before it was judged not live, and the URL returned
\* is the one built from the live source.
C1_ProbesInPriorityOrder ==
    op \in {"verified", "check"} =>
        /\ \A i \in DOMAIN probed : SourceNamed(probed[i].source).enabled
        /\ \A i, j \in DOMAIN probed :
              i < j => SourceNamed(probed[i].source).priority
                          < SourceNamed(probed[j].source).priority
        /\ \A i \in DOMAIN probed : \A s \in BuildingSources :
              s.priority < SourceNamed(probed[i].source).priority
                  => \E j \in 1..(i - 1) :
                        probed[j].source = s.name /\ probed[j].verdict = "dead"
        /\ \A i \in DOMAIN probed :
              probed[i].verdict = "live"
                  => /\ i = Len(probed)
                     /\ pc = "done"
                     /\ result = UrlOfSource(SourceNamed(probed[i].source))
        /\ \A i \in DOMAIN probed :
              probed[i].verdict = "pending" => i = Len(probed) /\ pc = "probing"
        /\ (useCinetaro /\ pc = "done" /\ \A i \in DOMAIN probed : probed[i].verdict = "dead")
              => \A s \in BuildingSources : \E i \in DOMAIN probed : probed[i].source = s.name

\* C1 witness: A was probed and judged not live, B was probed, judged live and
\* its URL returned, and an enabled source C of lower precedence that builds
\* a URL was never probed.
C1_Witness ==
    /\ pc = "done"
    /\ op = "verified"
    /\ Len(probed) = 2
    /\ probed[1].verdict = "dead"
    /\ probed[2].verdict = "live"
    /\ result = UrlOfSource(SourceNamed(probed[2].source))
    /\ \E s \in BuildingSources : s.priority > SourceNamed(probed[2].source).priority

C3_CheckIffLiveFound ==
    (pc = "done" /\ op = "check")
        => (available <=> \E i \in DOMAIN probed : probed[i].verdict = "live")

\* C4 as claimed: resolveFast returns the URL built from the enabled source of
\* smallest priority and issues no probe.
C4_FastUsesTopPriority ==
    (pc = "done" /\ op \in {"sync", "fast"})
        => /\ result = TopPriorityUrl
           /\ probed = <<>>
           /\ lastProbe = NoProbe

\* C4 amended: with streaming enabled resolveFast returns the URL built from
\* the enabled source of smallest priority, wherever it is listed; with
\* streaming disabled it returns null; it never issues a probe.
C4_FastUsesTopPriorityWhenEnabled ==
    (pc = "done" /\ op \in {"sync", "fast"})
        => /\ useCinetaro => result = TopPriorityUrl
           /\ ~useCinetaro => result = Null
           /\ probed = <<>>
           /\ lastProbe = NoProbe

\* C4 witness: the source listed second has priority 1 and the one listed
\* first priority 2, the source of priority 1 being enabled, and resolveFast
\* returned the URL of the second.
C4_Witness ==
    /\ pc = "done"
    /\ op = "sync"
    /\ useCinetaro
    /\ fallbackSources[1].priority = 2
    /\ fallbackSources[1].enabled
    /\ fallbackSources[2].priority = 1
    /\ fallbackSources[2].enabled
    /\ result = UrlOfSource(fallbackSources[2])
    /\ result # Null

\* C5: with no source enabled every resolver operation returns null,
\* checkCinetaroAvailability answers false, and no probe is ever issued.
C5_NoSourceEnabled ==
    EnabledSources = {}
        => /\ pc # "probing"
           /\ probed = <<>>
           /\ lastProbe = NoProbe
           /\ pc = "done" => (result = Null /\ available = FALSE)

\* C5 witness: checkCinetaroAvailability has returned with streaming switched
\* on and every source disabled.
C5_Witness ==
    /\ pc = "done"
    /\ op = "check"
    /\ useCinetaro
    /\ EnabledSources = {}

\* C6: a probe is judged live exactly when the HEAD request answered 2xx;
\* after a probe judged not live the resolver is probing the next source that
\* builds a URL or, without one, has returned the top-priority URL.
C6_LiveIff2xx ==
    lastProbe # NoProbe =>
        /\ lastProbe.live <=> Is2xx(lastProbe.outcome)
        /\ ~lastProbe.live =>
              LET later == {s \in BuildingSources :
                              s.priority > SourceNamed(lastProbe.source).priority}
              IN IF later # {}
                 THEN /\ pc = "probing"
                      /\ probed[Len(probed)].verdict = "pending"
                      /\ \A s \in later :
                            SourceNamed(probed[Len(probed)].source).priority <= s.priority
                      /\ SourceNamed(probed[Len(probed)].source) \in later
                 ELSE /\ pc = "done"
                      /\ result = TopPriorityUrl

\* C6 witness: a probe answered 404 and the resolver went on to probe the
\* next source.
C6_Witness ==
    /\ pc = "probing"
    /\ lastProbe.outcome.kind = "status"
    /\ lastProbe.outcome.status = 404
    /\ Len(probed) = 2
    /\ probed[1].verdict = "dead"

(***************************************************************************)
(* Properties of the deduplicator                                          *)
(***************************************************************************)

HasTitle(media) == Truthy(media.title) \/ Truthy(media.originalTitle)

\* A record deduplicateMedia does not skip: it has a title, and its
\* normalized title and year are not both empty (its key is not "_").
Retained(media) ==
    HasTitle(media) /\ ~(NormalizedTitleOf(media) = <<>> /\ YearOf(media) = <<>>)

SameTitleAndYear(a, b) ==
    NormalizedTitleOf(a) = NormalizedTitleOf(b) /\ YearOf(a) = YearOf(b)

IsPair == dpc # "input" /\ Len(mediaArray) = 2

\* The four reasons for which an incoming record replaces the stored one.
Improves(incoming, stored) ==
    \/ incoming.source # Absent /\ stored.source = Absent
    \/ incoming.hasStreaming = TRUE /\ stored.hasStreaming = FALSE
    \/ incoming.posterUrl # Absent /\ stored.posterUrl = Absent
    \/ /\ incoming.genres.items # <<>>
       /\ stored.genres.items = <<>>

\* C7: deduplicating a deduplicated array changes nothing: the same records
\* in the same order.
C7_DedupIdempotent == dpc = "twice" => dedupedAgain = deduped

\* C7 witness: of three records the third replaced the first, the second has
\* a key of its own, and the second run has been made.
C7_Witness ==
    /\ dpc = "twice"
    /\ Len(mediaArray) = 3
    /\ Len(deduped) = 2
    /\ deduped[1] = mediaArray[3]
    /\ deduped[1] # mediaArray[1]
    /\ deduped[2] = mediaArray[2]

\* C8 as claimed: of two records with equal normalized title and equal year
\* exactly one survives.
C8_OneSurvivor ==
    (IsPair /\ SameTitleAndYear(mediaArray[1], mediaArray[2])) => Len(deduped) = 1

\* C8 amended: of two records with equal normalized title and equal year
\* exactly one survives when one of them has a title and a key other than
\* "_"; when neither has, both are skipped and none survives.
C8_OneSurvivorIfRetained ==
    (IsPair /\ SameTitleAndYear(mediaArray[1], mediaArray[2]))
        => Len(deduped) = IF Retained(mediaArray[1]) \/ Retained(mediaArray[2])
                           THEN 1 ELSE 0

\* C8 witness: two records of different titles and types, equal after
\* normalization, both with a usable key, of which one survived.
C8_Witness ==
    /\ IsPair
    /\ SameTitleAndYear(mediaArray[1], mediaArray[2])
    /\ mediaArray[1].title # mediaArray[2].title
    /\ mediaArray[1].type # mediaArray[2].type
    /\ Retained(mediaArray[1])
    /\ Retained(mediaArray[2])
    /\ Len(deduped) = 1

\* C9: a record colliding with the stored one replaces it exactly when it has
\* a source, streaming, a poster or non-empty genres that the stored one
\* lacks; otherwise the stored, first-seen record is kept.
C9_ReplaceIffImproves ==
    (/\ IsPair
     /\ Retained(mediaArray[1])
     /\ Retained(mediaArray[2])
     /\ SameTitleAndYear(mediaArray[1], mediaArray[2]))
        => deduped = IF Improves(mediaArray[2], mediaArray[1])
                     THEN <<mediaArray[2]>>
                     ELSE <<mediaArray[1]>>

\* C9 witness: b follows a with the same key, only b has a poster, all else
\* of the metadata equal, and the survivor has a poster.
C9_Witness ==
    /\ IsPair
    /\ Retained(mediaArray[1])
    /\ Retained(mediaArray[2])
    /\ SameTitleAndYear(mediaArray[1], mediaArray[2])
    /\ mediaArray[1].posterUrl = Absent
    /\ mediaArray[2].posterUrl # Absent
    /\ mediaArray[1].source = mediaArray[2].source
    /\ mediaArray[1].hasStreaming = mediaArray[2].hasStreaming
    /\ mediaArray[1].genres = mediaArray[2].genres
    /\ Len(deduped) = 1
    /\ deduped[1].posterUrl # Absent

\* {title: 'Dune', year: '2021', source: 'tmdb', posterUrl: null}
DuneTmdb ==
    Record(<<Str(Dune), Absent>>, <<Str(Y2021), Absent>>, "movie", Tmdb, FALSE, Absent,
           [isArray |-> FALSE, items |-> <<>>])

\* {title: 'dune!!', year: '2021', source: undefined, posterUrl: 'http://x/p.jpg'}
DuneLocal ==
    Record(<<Str(DuneBangs), Absent>>, <<Str(Y2021), Absent>>, "movie", Absent, FALSE,
           Poster, [isArray |-> FALSE, items |-> <<>>])

\* C10: every record of the output is a record of the input, unchanged; for
\* the Dune of tmdb without poster followed by the local dune!! with poster
\* the output is the second record alone, its source still undefined.
C10_OutputRecordsAreInputRecords ==
    /\ dpc # "input" =>
          /\ \A i \in DOMAIN deduped : \E j \in DOMAIN mediaArray :
                deduped[i] = mediaArray[j]
          /\ mediaArray = <<DuneTmdb, DuneLocal>>
                => (deduped = <<DuneLocal>> /\ deduped[1].source = Absent)
    /\ dpc = "twice" =>
          \A i \in DOMAIN dedupedAgain : \E j \in DOMAIN mediaArray :
                dedupedAgain[i] = mediaArray[j]

\* C10 witness: the two Dune records were deduplicated and the local one
\* with poster alone survived.
C10_Witness ==
    /\ dpc # "input"
    /\ mediaArray = <<DuneTmdb, DuneLocal>>
    /\ deduped = <<DuneLocal>>

\* C11: the survivor depends on the order of arrival: of two records with the
\* same key of which each has something the other lacks, the one arriving
\* second survives, so the Dune of tmdb followed by the local dune!! keeps
\* the local one and the local one followed by the Dune of tmdb keeps that.
C11_SurvivorDependsOnOrder ==
    /\ (/\ IsPair
        /\ Retained(mediaArray[1])
        /\ Retained(mediaArray[2])
        /\ SameTitleAndYear(mediaArray[1], mediaArray[2])
        /\ Improves(mediaArray[1], mediaArray[2])
        /\ Improves(mediaArray[2], mediaArray[1]))
          => deduped = <<mediaArray[2]>>
    /\ (dpc # "input" /\ mediaArray = <<DuneTmdb, DuneLocal>>) => deduped = <<DuneLocal>>
    /\ (dpc # "input" /\ mediaArray = <<DuneLocal, DuneTmdb>>) => deduped = <<DuneTmdb>>

\* C11 witness: the local dune!! arrived first, the Dune of tmdb second, and
\* the Dune of tmdb survived, the reverse of the survivor of the other order.
C11_Witness ==
    /\ dpc # "input"
    /\ mediaArray = <<DuneLocal, DuneTmdb>>
    /\ deduped = <<DuneTmdb>>
    /\ DeduplicateMedia(<<DuneTmdb, DuneLocal>>) = <<DuneLocal>>

(***************************************************************************)
(* Properties of the response cache and the page adapters                  *)
(***************************************************************************)

\* The getCached of the call read a complete entry without an I/O error.
HasRead(c) == c.seen.kind = "json" /\ ~c.readFailed

\* The adapter returned [] up front for want of the API key.
ShortCircuits(c) == NeedsTmdbApiKey(c.adapter) /\ ~tmdbApiKey

\* The upstream call of the adapter has settled, with a 2xx response whose
\* body holds the list, or with anything else.
UpstreamSucceeded(c) ==
    c.outcome.kind # "none" /\ AxiosGetResolves(c.outcome) /\ c.outcome.body.shape = "list"
UpstreamFailed(c) ==
    c.outcome.kind # "none" /\ ~(AxiosGetResolves(c.outcome) /\ c.outcome.body.shape = "list")

\* C12: an entry with timestamp T read at time t is returned when
\* t - T < cacheExpiry and is a miss when t - T >= cacheExpiry.
C12_FreshUntilExpiry ==
    \A s \in Slots :
        LET c == calls[s] IN
        HasRead(c) =>
            IF c.readAt - c.seen.timestamp < cacheExpiry
            THEN c.cached = CacheData(c.seen.data)
            ELSE c.cached = CacheNull

\* C12 witness: an entry written in this run was read one millisecond before
\* its expiry and returned.
C12_Witness ==
    \E s \in Slots :
        LET c == calls[s] IN
        /\ HasRead(c)
        /\ c.seen.timestamp > 1
        /\ c.readAt - c.seen.timestamp = cacheExpiry - 1
        /\ c.cached = CacheData(c.seen.data)
        /\ c.result = c.seen.data

\* The step is one of call s.
StepOf(s) == calls'[s] # calls[s]

\* C13: no step of getCached changes a cache file, and only the steps of a
\* setCache do; a stale entry is a miss and stays in its file; setCache takes
\* its timestamp when called and its completed write, no other write having
\* reached the file meanwhile, leaves {timestamp, data} in the file, which
\* getCached returns while it is fresh.
C13_GetCachedLeavesStore ==
    [][/\ cacheFiles' # cacheFiles =>
            \E s \in Slots : StepOf(s) /\ calls[s].pc \in {"writeOpen", "writeFinish"}
       /\ \A s \in Slots :
            LET c == calls[s]
                d == calls'[s]
                path == CachePathOf(c)
            IN  /\ (StepOf(s) /\ c.pc \in {"pathExists", "readJson"}) =>
                        cacheFiles' = cacheFiles
                /\ (StepOf(s) /\ c.pc = "readJson" /\ cacheFiles[path].kind = "json"
                        /\ ~IsFresh(cacheFiles[path].timestamp, now)) =>
                        (d.cached = CacheNull /\ d.pc = "upstream"
                            /\ cacheFiles'[path] = cacheFiles[path])
                /\ (c.pc = "upstream" /\ d.pc = "writeOpen") => d.stamp = now
                /\ (c.pc = "writeFinish" /\ d.pc = "done" /\ ~d.writeFailed
                        /\ cacheFiles[path] = Partial) =>
                        /\ cacheFiles'[path] = Entry(c.stamp, JsonRoundTrip(c.results))
                        /\ IsFresh(c.stamp, now) =>
                              GetCached(cacheFiles'[path], "ok", now).value
                                  = CacheData(JsonRoundTrip(c.results))]_vars

\* C13 witness: a call found a stale entry, fetched, and its setCache
\* replaced the stale entry by one with the time of the call.
C13_Witness ==
    \E s \in Slots :
        LET c == calls[s] IN
        /\ HasRead(c)
        /\ c.cached = CacheNull
        /\ c.pc = "done"
        /\ c.stamp # 0
        /\ ~c.writeFailed
        /\ c.results # <<>>
        /\ cacheFiles[CachePathOf(c)] = Entry(c.stamp, JsonRoundTrip(c.results))
        /\ cacheFiles[CachePathOf(c)] # c.seen

\* C14: nothing is raised to the caller of an adapter; a read that fails or
\* finds no complete entry is a miss; and a call whose upstream succeeded
\* returns the mapped records whether or not its cache accesses failed.
C14_CacheFailuresSwallowed ==
    \A s \in Slots :
        LET c == calls[s] IN
        /\ ~c.raised
        /\ (c.readFailed \/ c.seen.kind # "json") => c.cached = CacheNull
        /\ (c.pc = "done" /\ UpstreamSucceeded(c)) =>
                c.result = MapResponse(c.adapter, c.outcome.body, useCinetaro, genreMap).results

\* C14 witness: both the read and the write of the cache failed and the call
\* returned the records of the upstream.
C14_Witness ==
    \E s \in Slots :
        LET c == calls[s] IN
        /\ c.pc = "done"
        /\ c.readFailed
        /\ c.writeFailed
        /\ UpstreamSucceeded(c)
        /\ c.result # <<>>
        /\ c.result = MapResponse(c.adapter, c.outcome.body, useCinetaro, genreMap).results

\* A completed call consulted the cache before the upstream: it looked its
\* key up, returned what getCached gave it without an upstream call, and on
\* a miss made exactly one upstream call.
ConsultedCacheFirst(c) ==
    /\ c.lookedUp
    /\ ~c.cached.isNull => (c.result = c.cached.value /\ c.upstreamCalls = 0)
    /\ c.cached.isNull => c.upstreamCalls = 1

\* A read of a fresh entry is a hit: the call is over, with the entry as its
\* result and no upstream call.
FreshEntryIsHit(c) ==
    (HasRead(c) /\ IsFresh(c.seen.timestamp, c.readAt)) =>
        (c.pc = "done" /\ c.result = c.seen.data /\ c.upstreamCalls = 0)

\* The step in which the write of a call goes through, no other write
\* having reached the file meanwhile, leaves the records the call returns,
\* with the time of its setCache, in the file of its key.
StoresUnderSameKey(s) ==
    (/\ calls[s].pc = "writeFinish" /\ calls'[s].pc = "done" /\ ~calls'[s].writeFailed
     /\ cacheFiles[CachePathOf(calls[s])] = Partial) =>
        cacheFiles' = [cacheFiles EXCEPT
            ![GetCachePath(CacheKey(calls[s].adapter, calls[s].page))] =
                Entry(calls[s].stamp, JsonRoundTrip(calls'[s].result))]

\* C15 as stated: every page adapter consults the cache first, returns a
\* fresh entry without an upstream call, makes exactly one upstream call
\* otherwise and stores its result under the same key.
C15_CacheBeforeUpstream ==
    /\ [](\A s \in Slots :
            /\ calls[s].pc = "done" => ConsultedCacheFirst(calls[s])
            /\ FreshEntryIsHit(calls[s]))
    /\ [][\A s \in Slots : StoresUnderSameKey(s)]_vars

\* C15 amended: the same for every adapter call that is not short-circuited
\* by a missing tmdbApiKey; a short-circuited call returns [] and touches
\* neither the cache nor the upstream, whatever the cache holds.
C15_CacheBeforeUpstreamIfKeyed ==
    /\ [](\A s \in Slots :
            LET c == calls[s] IN
            /\ (c.pc = "done" /\ ~ShortCircuits(c)) => ConsultedCacheFirst(c)
            /\ (c.pc = "done" /\ ShortCircuits(c)) =>
                    (c.result = <<>> /\ ~c.lookedUp /\ c.upstreamCalls = 0 /\ c.stamp = 0)
            /\ FreshEntryIsHit(c))
    /\ [][\A s \in Slots : StoresUnderSameKey(s)]_vars

\* C15 witness: the second call of the run hit the entry the first call
\* stored, and made no upstream call.
C15_Witness ==
    \E s \in Slots :
        LET c == calls[s] IN
        /\ started = 2
        /\ c.pc = "done"
        /\ HasRead(c)
        /\ c.seen.timestamp > 1
        /\ c.result = c.seen.data
        /\ c.result # <<>>
        /\ c.upstreamCalls = 0

\* C16: the step in which the upstream call of an adapter fails (no
\* response, a non-2xx status, a body without the list) raises nothing and
\* changes no cache file, the call then returns [], and no later step of
\* that call changes a cache file.
C16_FailureLeavesCacheUnchanged ==
    [][\A s \in Slots :
            LET c == calls[s]
                d == calls'[s]
            IN  /\ (c.pc = "upstream" /\ UpstreamFailed(d)) =>
                        (~d.raised /\ cacheFiles' = cacheFiles)
                /\ UpstreamFailed(d) => (d.pc = "done" => d.result = <<>>)
                /\ (UpstreamFailed(c) /\ StepOf(s)) => cacheFiles' = cacheFiles]_vars

(***************************************************************************)
(* Properties of bulkLoad                                                  *)
(***************************************************************************)

\* ceil(pageCount / batchSize)
NumBatches == (pageCount + batchSize - 1) \div batchSize

\* The k-th batch of an endpoint: batchSize consecutive pages from
\* startPage + (k - 1) * batchSize, cut off at the last page.
ExpectedBatch(eIdx, k) ==
    LET first == startPage + (k - 1) * batchSize
        last == Min(first + batchSize - 1, startPage + pageCount - 1)
    IN  [endpoint |-> eIdx, pages |-> [j \in 1..(last - first + 1) |-> first + j - 1]]

ExpectedBatches ==
    Flatten([eIdx \in 1..Len(endpoints) |->
                [k \in 1..NumBatches |-> ExpectedBatch(eIdx, k)]])

\* One delay after each batch of an endpoint but its last.
ExpectedWaits ==
    Flatten([eIdx \in 1..Len(endpoints) |->
                [k \in 1..(NumBatches - 1) |->
                    [endpoint |-> eIdx, afterPage |-> startPage + k * batchSize - 1]]])

IsPrefix(a, b) == Len(a) <= Len(b) /\ \A k \in 1..Len(a) : a[k] = b[k]

BatchesOf(eIdx) == SelectSeq(batches, LAMBDA b : b.endpoint = eIdx)
WaitsOf(eIdx) == SelectSeq(waits, LAMBDA w : w.endpoint = eIdx)

\* C17: the batches issued are, endpoint by endpoint, the ceil(pageCount /
\* batchSize) batches of consecutive pages, with a delay after each batch of
\* an endpoint but its last; pageCount 5 and batchSize 2 from page 1 give
\* [1,2], [3,4], [5] and two delays per endpoint.
C17_BatchesAndWaits ==
    /\ IsPrefix(batches, ExpectedBatches)
    /\ IsPrefix(waits, ExpectedWaits)
    /\ \A k \in 1..Len(waits) : waits[k].afterPage < startPage + pageCount - 1
    /\ bpc = "done" =>
            /\ batches = ExpectedBatches
            /\ waits = ExpectedWaits
            /\ \A eIdx \in 1..Len(endpoints) :
                    /\ Len(BatchesOf(eIdx)) = NumBatches
                    /\ Len(WaitsOf(eIdx)) = IF NumBatches = 0 THEN 0 ELSE NumBatches - 1
    /\ (bpc = "done" /\ startPage = 1 /\ pageCount = 5 /\ batchSize = 2) =>
            \A eIdx \in 1..Len(endpoints) :
                /\ BatchesOf(eIdx) = <<[endpoint |-> eIdx, pages |-> <<1, 2>>],
                                       [endpoint |-> eIdx, pages |-> <<3, 4>>],
                                       [endpoint |-> eIdx, pages |-> <<5>>]>>
                /\ WaitsOf(eIdx) = <<[endpoint |-> eIdx, afterPage |-> 2],
                                     [endpoint |-> eIdx, afterPage |-> 4]>>

\* C17 witness: five pages in batches of two from two endpoints are loaded:
\* six batches and four delays.
C17_Witness ==
    /\ bpc = "done"
    /\ startPage = 1
    /\ pageCount = 5
    /\ batchSize = 2
    /\ Len(endpoints) = 2
    /\ Len(batches) = 6
    /\ Len(waits) = 4

\* What the fetch of page i of an endpoint delivered.
DeliveredBy(eIdx, i) ==
    (CHOOSE r \in pageItems : r.endpoint = eIdx /\ r.page = i).items

\* The pages of an endpoint in ascending order, concatenated.
PagesAscending(eIdx) ==
    Flatten([k \in 1..pageCount |-> DeliveredBy(eIdx, startPage + k - 1)])

\* C18: bulkLoad returns the concatenation, in the order of the endpoint
\* list, of each endpoint's pages in ascending page order, in whatever order
\* the fetches of a batch were fulfilled.
C18_ListOrderThenPageOrder ==
    bpc = "done" =>
        allItems = Flatten([eIdx \in 1..Len(endpoints) |-> PagesAscending(eIdx)])

\* C18 witness: a load from two endpoints in which a page was fulfilled
\* before a lower page of its batch has returned records of both.
C18_Witness ==
    /\ bpc = "done"
    /\ outOfOrder
    /\ Len(endpoints) = 2
    /\ \E k \in 1..Len(allItems) : allItems[k][1] = NameOf(1)
    /\ \E k \in 1..Len(allItems) : allItems[k][1] = NameOf(2)

\* C19: a failed page fetch delivers an empty page and nothing is abandoned:
\* no endpoint is aborted, every page of every endpoint is fetched, and of
\* two endpoints of which one always fails and the other never, bulkLoad
\* returns exactly the records of the other.
C19_FailedPageIsEmptyPage ==
    /\ aborted = {}
    /\ \A r \in pageItems :
            endpoints[r.endpoint] = "failing" => r.items = <<>>
    /\ bpc = "done" =>
            \A eIdx \in 1..Len(endpoints), k \in 1..pageCount :
                \E r \in pageItems : r.endpoint = eIdx /\ r.page = startPage + k - 1
    /\ \A bad \in 1..2 :
            (bpc = "done" /\ Len(endpoints) = 2 /\ endpoints[bad] = "failing"
                /\ endpoints[3 - bad] = "healthy") =>
                allItems = Flatten([k \in 1..pageCount |->
                                        PageRecords(3 - bad, startPage + k - 1)])

\* C19 witness: the first of two endpoints failed on each of its five pages
\* and the load returned the records of the second.
C19_Witness ==
    /\ bpc = "done"
    /\ endpoints = <<"failing", "healthy">>
    /\ pageCount = 5
    /\ Len(allItems) > 0
    /\ \A k \in 1..Len(allItems) : allItems[k][1] = NameOf(2)

\* C20: the fetches in flight all belong to the current batch of the current
\* endpoint, so there are at most batchSize of them, and fetches only start
\* when none is in flight.
C20_OneBatchInFlight ==
    /\ [](\A f \in fetching : InCurrentBatch(f))
    /\ [](Cardinality(fetching) <= batchSize)
    /\ [][~(fetching' \subseteq fetching) => fetching = {}]_vars
    /\ [][endpointIdx' >= endpointIdx]_vars

\* C20 witness: a later batch of the second endpoint has batchSize fetches
\* in flight.
C20_Witness ==
    /\ bpc = "batch"
    /\ endpointIdx = 2
    /\ batchStart > startPage
    /\ batchSize >= 2
    /\ Cardinality(fetching) = batchSize


(***************************************************************************)
(* Properties of the OMDb lookups and of enrichWithOMDb                    *)
(***************************************************************************)

\* C21: the OMDb lookups are shielded by the 24-hour cache: when a lookup
\* for an external identifier, or for a title and year, has returned a
\* record, a lookup with the same arguments within the TTL is served from
\* the cache and makes no upstream call.
C21_RepeatedLookupServedFromCache ==
    (/\ omdb.pc = "done"
     /\ omdb.op \in {"getMovieFromOMDb", "searchOMDbByTitle"}
     /\ omdb.priorSuccess)
    => omdb.upstreamCalls = 0

\* OMDb had no match for the item: Response 'False' from either request, or
\* a search result without imdbID.
OmdbNoMatch(c) ==
    \/ /\ c.searched # NoOmdbOutcome
       /\ c.searched.resolves
       /\ (c.searched.data.Response = "False" \/ ~Truthy(c.searched.data.imdbID))
    \/ /\ c.fetched # NoOmdbOutcome
       /\ c.fetched.resolves
       /\ c.fetched.data.Response = "False"

\* The lookup failed: a request was rejected, or the body could not be read.
OmdbLookupFailed(c) ==
    \/ c.searched # NoOmdbOutcome /\ ~c.searched.resolves
    \/ c.fetched # NoOmdbOutcome /\ ~c.fetched.resolves
    \/ /\ c.fetched # NoOmdbOutcome
       /\ c.fetched.resolves
       /\ c.fetched.data.Response # "False"
       /\ c.fetched.data.Genre = Absent

\* C23: enrichWithOMDb returns its input unchanged when the OMDb credential
\* is absent, when OMDb has no match, and when the lookup fails.
C23_EnrichIsNoOpWithoutMatch ==
    (/\ omdb.pc = "done"
     /\ omdb.op = "enrichWithOMDb"
     /\ (~omdbApiKey \/ OmdbNoMatch(omdb) \/ OmdbLookupFailed(omdb)))
    => omdb.result = omdb.item

\* An item given to enrichWithOMDb with the credential set, the search
\* matched, and the request for the details rejected.
C23_Witness ==
    /\ omdb.pc = "done"
    /\ omdb.op = "enrichWithOMDb"
    /\ omdbApiKey
    /\ ~omdb.item.isNull
    /\ omdb.fetched # NoOmdbOutcome
    /\ ~omdb.fetched.resolves
    /\ omdb.result = omdb.item

\* enrichWithOMDb merged a record of OMDb into the item.
EnrichedWithOMDb ==
    /\ omdb.pc = "done"
    /\ omdb.op = "enrichWithOMDb"
    /\ omdb.result # omdb.item


(***************************************************************************)
(* Properties of the genre maps                                            *)
(***************************************************************************)

\* The records are those mapGenres and the streaming switch give now.
ReflectsCurrentMaps(records) ==
    \A i \in DOMAIN records :
        /\ records[i].genres = MapGenres(records[i].genreIds, "movie", genreMap)
        /\ records[i].hasStreaming = useCinetaro

\* C22: the cache stores the upstream's response, not the mapped records: the
\* records a call returns on a cache hit are built during that call, so
\* their genres and their streaming fields are those the genre maps and the
\* streaming configuration give at the time of the call, not those of the
\* time the entry was written.
C22_HitReflectsCurrentMaps ==
    [][\A s \in Slots :
        (/\ StepOf(s)
         /\ calls'[s].pc = "done"
         /\ ~calls'[s].cached.isNull)
        => ReflectsCurrentMaps(calls'[s].result)]_vars

\* C24: initGenres may be invoked any number of times, also while the
\* invocation of the constructor is in flight: once an invocation has
\* loaded both lists and returned, the genre maps are those of a single
\* initialization, and its caller maps ids to the names of the provider,
\* not to 'Genre {id}' placeholders.
C24_InitGenresIdempotent ==
    \A s \in InitSlots :
        (inits[s].pc = "done" /\ inits[s].succeeded)
        => /\ genreMap = FullGenreMap
           /\ inits[s].mapped = MapGenres(CallerGenreIds, "movie", FullGenreMap)
           /\ \A i \in DOMAIN inits[s].mapped :
                    inits[s].mapped[i] # GenrePlaceholder(CallerGenreIds[i])

\* Three invocations have returned, two of them begun while another was in
\* flight; one failed and one loaded both lists.
C24_Witness ==
    /\ \A s \in InitSlots : inits[s].pc = "done"
    /\ \E s, t \in InitSlots : s # t /\ inits[s].overlapped /\ inits[t].overlapped
    /\ \E s \in InitSlots : inits[s].succeeded
    /\ \E s \in InitSlots : ~inits[s].succeeded


(***************************************************************************)
(* Properties of the streaming route                                       *)
(***************************************************************************)

\* C25: a streaming request for an anime record, as any of the anime
\* adapters emits it, for which no AniList id can be resolved is answered
\* with the condition of its own 'Anilist ID not found', not with the
\* generic answers for an invalid id or for streaming not found, and
\* getStreamingUrl is not invoked.
C25_UnresolvableAnimeIsDistinct ==
    (/\ route.pc = "done"
     /\ route.emitter \in AnimeAdapters
     /\ ~Truthy(route.query)
     /\ ~Truthy(route.anilistId))
    => /\ route.response = AnilistIdNotFound
       /\ ~route.resolveInvoked

\* A record of searchAnime without AniList id is answered with the
\* condition of its own.
SearchAnimeIsDistinct ==
    /\ route.pc = "done"
    /\ route.emitter = "searchAnime"
    /\ route.lookedUp
    /\ route.response = AnilistIdNotFound
    /\ ~route.resolveInvoked


(***************************************************************************)
(* Properties of overlapping calls on one cache key                        *)
(***************************************************************************)

\* The complete payloads there are for the key of call s: that of the entry
\* the run found, and the records of every call that reached its setCache.
CompletePayloads(s) ==
    {EarlierEntry(calls[s].adapter).data}
    \cup {JsonRoundTrip(calls[t].results) :
            t \in {u \in DOMAIN calls :
                     /\ calls[u].pc \in {"writeOpen", "writeFinish", "done"}
                     /\ calls[u].stamp # 0
                     /\ CachePathOf(calls[u]) = CachePathOf(calls[s])}}

\* C26: under any interleaving of getCached and setCache on one key, a
\* getCached that overlaps a setCache returns the complete previous
\* payload, the complete new payload, or a miss; it never returns a mixture
\* of the two and never raises.
C26_ReaderSeesWholePayloadOrMiss ==
    [][\A s \in DOMAIN calls :
        (StepOf(s) /\ calls[s].pc \in {"pathExists", "readJson"}) =>
            /\ ~calls'[s].raised
            /\ \/ calls'[s].pc = "readJson"
               \/ calls'[s].cached = CacheNull
               \/ \E d \in CompletePayloads(s) : calls'[s].cached = CacheData(d)]_vars

\* A getCached found the file while a setCache of another call had opened
\* it and not yet written it, and answered a miss; the other call has
\* written its payload since.
C26_Witness ==
    \E s, t \in DOMAIN calls :
        /\ s # t
        /\ calls[s].lookedUp
        /\ calls[s].seen = Partial
        /\ calls[s].cached = CacheNull
        /\ ~calls[s].raised
        /\ calls[t].pc = "done"
        /\ calls[t].writeSeq > 0
        /\ ~calls[t].writeFailed

\* Both calls missed, fetched and wrote.
BothWrote(s, t) ==
    /\ s # t
    /\ CachePathOf(calls[s]) = CachePathOf(calls[t])
    /\ \A u \in {s, t} :
            /\ calls[u].pc = "done"
            /\ calls[u].lookedUp
            /\ calls[u].cached = CacheNull
            /\ UpstreamSucceeded(calls[u])
            /\ calls[u].writeSeq > 0
            /\ ~calls[u].writeFailed

\* C27: upstream calls are not coalesced: two overlapping invocations of an
\* adapter with the same parameters that find no fresh entry each make
\* their own upstream call and each write the cache, and when both have
\* completed the file holds the complete payload of the setCache that
\* finished last.
C27_LastWriterWins ==
    \A s, t \in DOMAIN calls :
        (/\ calls[s].pc # "idle" /\ calls[t].pc # "idle"
         /\ BothWrote(s, t)
         /\ calls[s].writeSeq > calls[t].writeSeq)
        => /\ calls[s].upstreamCalls = 1
           /\ calls[t].upstreamCalls = 1
           /\ cacheFiles[CachePathOf(calls[s])]
                = Entry(calls[s].stamp, JsonRoundTrip(calls[s].results))

\* Two overlapping calls each made their own upstream call and each wrote.
NotCoalesced ==
    \E s, t \in DOMAIN calls :
        /\ calls[s].pc # "idle" /\ calls[t].pc # "idle"
        /\ BothWrote(s, t)
        /\ calls[s].upstreamCalls = 1
        /\ calls[t].upstreamCalls = 1
        /\ cacheFiles[CachePathOf(calls[s])].kind = "json"


(***************************************************************************)
(* Properties of getCartoons                                               *)
(***************************************************************************)

\* C28: getCartoons(page) writes its deduplicated aggregate to the cache
\* whenever the aggregation completes, also when some or all of the five
\* adapters degraded to []; each later call for the page that finds the
\* stored aggregate within the TTL returns it, empty or not, without
\* calling any adapter, whatever the providers would answer by then.
C28_DegradedAggregateIsCached ==
    [][LET c == cartoons
           d == cartoons'
           path == GetCachePath(CartoonsKey(c.page))
       IN  /\ (c.pc = "fetching" /\ d # c) =>
                    /\ d.pc = "writeOpen"
                    /\ d.results = Aggregate(d.outcomes)
           /\ (c.pc = "writeFinish" /\ d.pc = "done" /\ ~d.writeFailed) =>
                    /\ cacheFiles'[path] = Entry(c.stamp, JsonRoundTrip(c.results))
                    /\ d.result = c.results
           /\ (/\ c.pc = "lookup" /\ d # c
               /\ cacheFiles[path].kind = "json"
               /\ IsFresh(cacheFiles[path].timestamp, now)
               /\ ~d.readFailed) =>
                    /\ d.pc = "done"
                    /\ d.result = cacheFiles[path].data
                    /\ d.providerCalls = 0
                    /\ cacheFiles' = cacheFiles]_vars

\* Every adapter degraded to [], the empty aggregate was stored, and a call
\* one millisecond before its expiry returned it without calling an adapter.
C28_Witness ==
    /\ cartoons.pc = "done"
    /\ cartoons.lookedUp
    /\ cartoons.seen.kind = "json"
    /\ cartoons.seen.timestamp >= 2
    /\ cartoons.seen.data = <<>>
    /\ cartoons.readAt - cartoons.seen.timestamp = cacheExpiry - 1
    /\ cartoons.result = <<>>
    /\ cartoons.providerCalls = 0

\* An aggregate of records of three adapters, deduplicated, was stored while
\* the other two had degraded.
PartialAggregateStored ==
    /\ cartoons.pc = "done"
    /\ \E i \in 1..5 : cartoons.outcomes[i] = "rejected"
    /\ \E i \in 1..5 : cartoons.outcomes[i] = "empty"
    /\ Len(cartoons.results) = 2
    /\ cacheFiles[GetCachePath(CartoonsKey(cartoons.page))]
            = Entry(cartoons.stamp, JsonRoundTrip(cartoons.results))


(***************************************************************************)
(* Properties of universalSearch                                           *)
(***************************************************************************)

\* The records the three searches returned.
SearchInputs ==
    {usearch.movies[i] : i \in DOMAIN usearch.movies}
    \cup {usearch.tvShows[i] : i \in DOMAIN usearch.tvShows}
    \cup {usearch.anime[i] : i \in DOMAIN usearch.anime}

\* The positions of the result that hold a record with the title and year
\* of a.
SurvivorsOf(a) == {i \in DOMAIN usearch.result : SameTitleAndYear(usearch.result[i], a)}

\* C29: the dedup key ignores type, source and id: two records of different
\* type with the same normalized title and the same year collide and only
\* one of them is in the output (none when their key is "_"); the result
\* of universalSearch, which merges movie, tv and anime results through
\* deduplicateMedia, has at most one record per normalized title and year.
C29_OnePerTitleAndYearAcrossTypes ==
    usearch.pc = "done" =>
        /\ \A a \in SearchInputs :
                \A ty \in {"movie", "tv", "anime"}, so \in {Absent, Tmdb}, n \in {1, 2} :
                    GetDedupKey([a EXCEPT !.type = ty, !.source = so, !.id[2] = n])
                        = GetDedupKey(a)
        /\ \A a, b \in SearchInputs :
                (a.type # b.type /\ SameTitleAndYear(a, b)) =>
                    /\ Cardinality(SurvivorsOf(a)) = IF Retained(a) THEN 1 ELSE 0
                    /\ ~(\E i, j \in DOMAIN usearch.result :
                            usearch.result[i] = a /\ usearch.result[j] = b)
        /\ \A i, j \in DOMAIN usearch.result :
                i # j => ~SameTitleAndYear(usearch.result[i], usearch.result[j])
        /\ \A i \in DOMAIN usearch.result : usearch.result[i] \in SearchInputs

\* A movie, a tv show and an anime of one title and year were found, and
\* the result holds one of them.
C29_Witness ==
    /\ usearch.pc = "done"
    /\ \E a, b, c \in SearchInputs :
            /\ a.type = "movie" /\ b.type = "tv" /\ c.type = "anime"
            /\ SameTitleAndYear(a, b) /\ SameTitleAndYear(b, c)
            /\ Cardinality(SurvivorsOf(a)) = 1
    /\ Len(usearch.result) = 2


\* C30: a call of bulkLoad that has begun eventually returns, whatever the
\* endpoints, the start page, the page count and the batch size, when every
\* page fetch settles; and a call with pageCount 0 has returned as soon as it
\* has begun, with an empty allItems, no batch built and no page fetched.
C30_BulkLoadTerminates ==
    /\ ((bpc # "idle") ~> (bpc = "done"))
    /\ [](bpc # "idle" /\ pageCount = 0
            => /\ bpc = "done"
               /\ allItems = <<>>
               /\ batches = <<>>
               /\ fetching = {}
               /\ pageItems = {})

\* bulkLoad has returned after loading two endpoints in several batches with
\* a delay between them, the last batch shorter than batchSize.
C30_Witness ==
    /\ bpc = "done"
    /\ Len(endpoints) = 2
    /\ pageCount > batchSize
    /\ pageCount % batchSize # 0
    /\ Len(waits) >= 2
    /\ fetching = {}
    /\ allItems # <<>>

\* bulkLoad with pageCount 0 and a non-empty endpoint list has returned [].
ReturnedWithoutCalling ==
    /\ bpc = "done"
    /\ pageCount = 0
    /\ endpoints # <<>>
    /\ allItems = <<>>
    /\ batches = <<>>

====
